---- MODULE Spec2Model ----
(***************************************************************************)
(* A model of the peptide-suggestions backend: the Express request         *)
(* pipeline of POST /suggestions, POST /auth/register, POST /auth/login,   *)
(* GET /auth/verify and GET /auth/suggestions, the SQLite-backed user      *)
(* service behind it and the JWT middleware in front of it.                *)
(*                                                                         *)
(* Time is a counter of whole time units (`now`), one unit being half the  *)
(* token lifetime: JWT_EXPIRES_IN ('7d') is 2 units.  A timestamp the code *)
(* truncates (datetime('now'), iat/exp of a token) is the value of `now`   *)
(* at that step, so two events at the same value of `now` carry equal      *)
(* timestamps.                                                             *)
(*                                                                         *)
(* A store call may fail (the callback's err branch), which the handlers   *)
(* take as an input.  A specification that does not follow the analytics   *)
(* service or the rate limiters leaves their variables as they are         *)
(* (Untracked): the requests it models are those the limiters admit, and   *)
(* no response of the handlers it runs depends on the analytics service.   *)
(*                                                                         *)
(* The specifications share the state: Spec (the authentication endpoints  *)
(* from an empty store), SpecHistory (the suggestion endpoints over two    *)
(* stored users), SpecOptional (POST /suggestions under every kind of      *)
(* Authorization header), SpecInputs (one POST /suggestions over the whole *)
(* range of ages and goals), SpecAnalytics (POST /suggestions followed     *)
(* from await to await with the analytics service; SpecAnalyticsFair adds  *)
(* the scheduling of the event loop), SpecFrame (requests to be turned     *)
(* away next to requests served), SpecLimits (one client behind the rate   *)
(* limiters), SpecRetention (the analytics file over ninety days),         *)
(* SpecSerial (the analytics service with one request at a time),          *)
(* SpecTimer (the midnight reset of the counters, on a wall clock of whole *)
(* hours), SpecBoot (the start of the process), SpecWindow (the middleware *)
(* of validateRateLimit) and SpecClient (the AuthProvider of the browser   *)
(* client).  A variable a specification does not follow stays as it is.    *)
(***************************************************************************)
EXTENDS Integers, Sequences, FiniteSets, Bags, TLC

VARIABLES
    now,        \* the clock
    users,      \* table users: a sequence of rows, row i has id i (AUTOINCREMENT)
    history,    \* table user_suggestions: a sequence of rows, row i has id i
    issued,     \* the tokens clients still hold, each minted by register or login
    reg,        \* the POST /auth/register requests in flight, one slot per request
    pending,    \* a request waiting to be sent (the input-driven specification)
    resp,       \* the last request handled and the response it got
    analytics,  \* the analytics service: analytics.json and the in-memory counters
    jobs,       \* the POST /suggestions handlers in flight, followed step by step
    served,     \* how many POST /suggestions requests were begun, answered 200 and 500
    limits,     \* the stores of the two express-rate-limit middlewares
    timer,      \* the wall clock and the reset timers of the analytics service
    boot,       \* where the start of the process stands
    window,     \* a middleware of validateRateLimit: its arguments and its Map
    client      \* the browser: the AuthProvider's state and local storage

vars == <<now, users, history, issued, reg, pending, resp, analytics, jobs, served, limits,
          timer, boot, window, client>>

\* the parts of the state that only the specifications about them follow
aside == <<timer, boot, window, client>>

(***************************************************************************)
(* Bounds of the model.                                                    *)
(***************************************************************************)
MaxTime == 2
MaxHistory == 2
MaxTokens == 1
MaxInflight == 2
MaxRequests == 2
MaxOver == 2
MaxHours == 60

(***************************************************************************)
(* Program constants.                                                      *)
(***************************************************************************)
JWT_EXPIRES_IN == 2
MIN_AGE == 18
MAX_AGE == 120
MIN_PASSWORD == 8
DEFAULT_LIMIT == 10
HISTORY_PEEK == 5

JWT_SECRET == "your-super-secret-jwt-key-change-in-production"
JWT_ISSUER == "peptide-suggestions-app"

Goals == {"energy", "sleep", "focus", "recovery", "weight_management", "immune_support"}

(***************************************************************************)
(* JSON values of a request body.  A number is held in tenths, so that     *)
(* 64.5 is [t |-> "number", tenths |-> 645]; a string that reads as a      *)
(* number is [t |-> "string", numeric |-> TRUE, tenths |-> n], any other   *)
(* string [t |-> "string", numeric |-> FALSE, text |-> s].                 *)
(***************************************************************************)
Absent == [t |-> "absent"]
Null == [t |-> "null"]
Num(tenths) == [t |-> "number", tenths |-> tenths]
NumStr(tenths) == [t |-> "string", numeric |-> TRUE, tenths |-> tenths]
Str(s) == [t |-> "string", numeric |-> FALSE, text |-> s]

\* Joi.number() with convert: a numeric string becomes the number it reads as
JoiNumberCoerce(v) ==
    IF v.t = "string" /\ v.numeric THEN Num(v.tenths) ELSE v

ValidationFailure(message, field) ==
    [ok |-> FALSE, message |-> message, field |-> field]

\* ValidateAge with the lower limit taken as exclusive
ValidateAge_ExclusiveMin(raw) ==
    LET v == JoiNumberCoerce(raw) IN
    IF v.t = "absent" THEN ValidationFailure("Age is required", "age")
    ELSE IF v.t # "number" THEN ValidationFailure("Age must be a number", "age")
    ELSE IF v.tenths % 10 # 0 THEN ValidationFailure("Age must be a whole number", "age")
    ELSE IF v.tenths <= MIN_AGE * 10 THEN ValidationFailure("Age must be at least 18", "age")
    ELSE IF v.tenths > MAX_AGE * 10 THEN ValidationFailure("Age must be 120 or less", "age")
    ELSE [ok |-> TRUE, value |-> v.tenths \div 10]

\* age: Joi.number().integer().min(18).max(120).required(), first failing rule
ValidateAge(raw) ==
    LET v == JoiNumberCoerce(raw) IN
    IF v.t = "absent" THEN ValidationFailure("Age is required", "age")
    ELSE IF v.t # "number" THEN ValidationFailure("Age must be a number", "age")
    ELSE IF v.tenths % 10 # 0 THEN ValidationFailure("Age must be a whole number", "age")
    ELSE IF v.tenths < MIN_AGE * 10 THEN ValidationFailure("Age must be at least 18", "age")
    ELSE IF v.tenths > MAX_AGE * 10 THEN ValidationFailure("Age must be 120 or less", "age")
    ELSE [ok |-> TRUE, value |-> v.tenths \div 10]

\* healthGoal: Joi.string().valid(...).required()
ValidateGoal(raw) ==
    IF raw.t = "absent" THEN ValidationFailure("Health goal is required", "healthGoal")
    ELSE IF ~(raw.t = "string" /\ ~raw.numeric /\ raw.text \in Goals)
    THEN ValidationFailure(
        "Health goal must be one of: energy, sleep, focus, recovery, weight_management, immune_support",
        "healthGoal")
    ELSE [ok |-> TRUE, value |-> raw.text]

\* suggestionsSchema.validate(req.body): keys in schema order, abortEarly
suggestionsSchema(body) ==
    LET a == ValidateAge(body.age)
        g == ValidateGoal(body.healthGoal)
    IN  IF ~a.ok THEN a
        ELSE IF ~g.ok THEN g
        ELSE IF body.extra THEN ValidationFailure("\"extra\" is not allowed", "extra")
        ELSE [ok |-> TRUE, value |-> [age |-> a.value, healthGoal |-> g.value]]

(***************************************************************************)
(* The suggestion generator.                                               *)
(***************************************************************************)
Suggestion(name, description) == [name |-> name, description |-> description]

SuggestionTable(age, isAuthenticated) ==
    [energy |-> <<
        Suggestion("Peptide Alpha-E",
            "Supports natural energy production. " \o
            (IF age < 30 THEN "Great for young adults building stamina."
             ELSE IF age < 50 THEN "Ideal for maintaining energy levels."
             ELSE "Helps combat age-related energy decline.")),
        Suggestion("Mitochondrial Boost Complex",
            "Enhances cellular energy metabolism and reduces fatigue."),
        Suggestion("Vitality Peptide",
            IF isAuthenticated
            THEN "Based on your profile, this may help with sustained energy throughout the day."
            ELSE "May help with sustained energy throughout the day.") >>,
     sleep |-> <<
        Suggestion("Deep Rest Peptide",
            "Promotes restful sleep and recovery. " \o
            (IF age > 40 THEN "Particularly beneficial for age-related sleep improvements."
             ELSE "Supports healthy sleep cycles.")),
        Suggestion("Circadian Balance Formula",
            "Helps regulate natural sleep-wake cycles and improves sleep quality."),
        Suggestion("Recovery Sleep Support",
            IF isAuthenticated THEN "Customized for your sleep optimization needs."
            ELSE "Supports optimal sleep recovery.") >>,
     focus |-> <<
        Suggestion("Cognitive Enhancement Peptide",
            "Supports mental clarity and focus. " \o
            (IF age < 35 THEN "Perfect for cognitive performance optimization."
             ELSE "Helps maintain sharp mental function.")),
        Suggestion("Brain Boost Complex",
            "Enhances concentration and cognitive processing speed."),
        Suggestion("Mental Clarity Support",
            IF isAuthenticated THEN "Tailored to your cognitive enhancement goals."
            ELSE "Supports mental clarity and alertness.") >>,
     recovery |-> <<
        Suggestion("Rapid Recovery Peptide",
            "Accelerates muscle recovery and repair. " \o
            (IF age > 35 THEN "Essential for maintaining recovery speed with age."
             ELSE "Optimizes post-workout recovery.")),
        Suggestion("Tissue Repair Formula",
            "Supports faster healing and reduces recovery time."),
        Suggestion("Athletic Recovery Support",
            IF isAuthenticated THEN "Designed for your specific recovery needs."
            ELSE "Supports comprehensive recovery processes.") >>,
     weight_management |-> <<
        Suggestion("Metabolic Support Peptide",
            "Supports healthy metabolism. " \o
            (IF age > 30 THEN "Helps counter age-related metabolic changes."
             ELSE "Optimizes metabolic function.")),
        Suggestion("Fat Metabolism Enhancer",
            "Promotes efficient fat burning and metabolic health."),
        Suggestion("Body Composition Support",
            IF isAuthenticated THEN "Personalized for your weight management journey."
            ELSE "Supports healthy body composition.") >>,
     immune_support |-> <<
        Suggestion("Immune Defense Peptide",
            "Strengthens immune system function. " \o
            (IF age > 50 THEN "Critical for age-related immune support."
             ELSE "Supports robust immune response.")),
        Suggestion("Immunity Boost Complex",
            "Enhances natural immune defenses and resistance."),
        Suggestion("Wellness Protection Formula",
            IF isAuthenticated THEN "Customized immune support based on your profile."
            ELSE "Supports overall immune wellness.") >>]

\* generateSuggestions with the last immune_support record left out
generateSuggestions_TwoForImmune(age, goal, isAuthenticated, userHistory) ==
    LET suggestions == SuggestionTable(age, isAuthenticated) IN
    IF goal = "immune_support" THEN SubSeq(suggestions.immune_support, 1, 2)
    ELSE IF goal \in DOMAIN suggestions THEN suggestions[goal] ELSE suggestions.energy

\* suggestions[goal] || suggestions.energy
generateSuggestions(age, goal, isAuthenticated, userHistory) ==
    LET suggestions == SuggestionTable(age, isAuthenticated) IN
    IF goal \in DOMAIN suggestions THEN suggestions[goal] ELSE suggestions.energy

(***************************************************************************)
(* JSON Web Tokens (jsonwebtoken.sign / jsonwebtoken.verify, HS256).  A    *)
(* token is its claims and a signature; the signature is the key and the   *)
(* claims it was computed over.  A bearer string that is no JWT is         *)
(* [jwt |-> FALSE, text |-> s].                                            *)
(***************************************************************************)
HS256(claims, key) == [key |-> key, over |-> claims]

NotAJwt(s) == [jwt |-> FALSE, text |-> s]

jwtSign(payload, key, t) ==
    LET claims == [id |-> payload.id, email |-> payload.email,
                   firstName |-> payload.firstName, lastName |-> payload.lastName,
                   iat |-> t, exp |-> t + JWT_EXPIRES_IN, iss |-> JWT_ISSUER]
    IN  [jwt |-> TRUE, claims |-> claims, sig |-> HS256(claims, key)]

\* jwtVerify without the expiry check
jwtVerify_NoExpiry(token, key, t) ==
    IF ~token.jwt
    THEN [name |-> "JsonWebTokenError", message |-> "jwt malformed"]
    ELSE IF token.sig # HS256(token.claims, key)
    THEN [name |-> "JsonWebTokenError", message |-> "invalid signature"]
    ELSE [name |-> "none", decoded |-> token.claims]

\* the checks of jsonwebtoken.verify, in its order: shape, signature, expiry
jwtVerify(token, key, t) ==
    IF ~token.jwt
    THEN [name |-> "JsonWebTokenError", message |-> "jwt malformed"]
    ELSE IF token.sig # HS256(token.claims, key)
    THEN [name |-> "JsonWebTokenError", message |-> "invalid signature"]
    ELSE IF t >= token.claims.exp
    THEN [name |-> "TokenExpiredError", message |-> "jwt expired"]
    ELSE [name |-> "none", decoded |-> token.claims]

(***************************************************************************)
(* AuthMiddleware.  An Authorization header is [scheme, token]; scheme     *)
(* "none" is a request without the header.                                 *)
(***************************************************************************)
NoHeader == [scheme |-> "none"]
Bearer(token) == [scheme |-> "Bearer", token |-> token]
BasicHeader == [scheme |-> "Basic"]

NoUser == [anonymous |-> TRUE]

\* whether the header carries a token that register or login minted
Minted(header) == header.scheme = "Bearer" /\ header.token \in issued

ErrorBody(message, code) ==
    [success |-> FALSE, error |-> [message |-> message, code |-> code]]

\* generateToken signing a payload that holds the password column as well
generateToken_WithPassword(user, t) ==
    LET claims == [id |-> user.id, email |-> user.email,
                   firstName |-> user.firstName, lastName |-> user.lastName,
                   password |-> "$2b$12$", iat |-> t, exp |-> t + JWT_EXPIRES_IN,
                   iss |-> JWT_ISSUER]
    IN  [jwt |-> TRUE, claims |-> claims, sig |-> HS256(claims, JWT_SECRET)]

generateToken(user, t) ==
    jwtSign([id |-> user.id, email |-> user.email,
             firstName |-> user.firstName, lastName |-> user.lastName],
            JWT_SECRET, t)

\* what verifyToken does with a request: answer 401, or set req.user and go on
verifyToken(header, t) ==
    IF header.scheme # "Bearer"
    THEN [next |-> FALSE, status |-> 401,
          body |-> ErrorBody("Access token is required", "TOKEN_MISSING")]
    ELSE LET v == jwtVerify(header.token, JWT_SECRET, t) IN
         IF v.name = "none" THEN [next |-> TRUE, user |-> v.decoded]
         ELSE IF v.name = "TokenExpiredError"
         THEN [next |-> FALSE, status |-> 401,
               body |-> ErrorBody("Token has expired", "TOKEN_EXPIRED")]
         ELSE IF v.name = "JsonWebTokenError"
         THEN [next |-> FALSE, status |-> 401,
               body |-> ErrorBody("Malformed token", "TOKEN_MALFORMED")]
         ELSE [next |-> FALSE, status |-> 401,
               body |-> ErrorBody("Invalid token", "TOKEN_INVALID")]

\* optionalAuth taking the claims of any token that decodes, verified or not
optionalAuth_TrustsClaims(header, t) ==
    IF header.scheme # "Bearer" THEN NoUser
    ELSE IF header.token.jwt THEN header.token.claims ELSE NoUser

\* req.user after optionalAuth, which always goes on
optionalAuth(header, t) ==
    IF header.scheme # "Bearer" THEN NoUser
    ELSE LET v == jwtVerify(header.token, JWT_SECRET, t) IN
         IF v.name = "none" THEN v.decoded ELSE NoUser

(***************************************************************************)
(* Strings whose characters matter (passwords, names) are tuples of        *)
(* one-character strings; '' is << >>.                                     *)
(***************************************************************************)
LowerCase == {"a", "b", "c", "d", "e", "f", "g", "h", "i", "j", "k", "l", "m",
              "n", "o", "p", "q", "r", "s", "t", "u", "v", "w", "x", "y", "z"}
UpperCase == {"A", "B", "C", "D", "E", "F", "G", "H", "I", "J", "K", "L", "M",
              "N", "O", "P", "Q", "R", "S", "T", "U", "V", "W", "X", "Y", "Z"}
Digits == {"0", "1", "2", "3", "4", "5", "6", "7", "8", "9"}

HasCharIn(chars, class) == \E i \in 1..Len(chars) : chars[i] \in class

\* /^(?=.*[a-z])(?=.*[A-Z])(?=.*\d)/
PasswordPattern(chars) ==
    HasCharIn(chars, LowerCase) /\ HasCharIn(chars, UpperCase) /\ HasCharIn(chars, Digits)

RECURSIVE TrimStart(_)
TrimStart(chars) ==
    IF chars # << >> /\ Head(chars) = " " THEN TrimStart(Tail(chars)) ELSE chars

RECURSIVE TrimEnd(_)
TrimEnd(chars) ==
    IF chars # << >> /\ chars[Len(chars)] = " "
    THEN TrimEnd(SubSeq(chars, 1, Len(chars) - 1)) ELSE chars

Trim(chars) == TrimEnd(TrimStart(chars))

\* the addresses Joi's email() rule accepts, among the ones the model sends
EmailSyntaxOk(text) == text \in {"a@x.com", "b@x.com"}

MessageOnly(message) == [ok |-> FALSE, message |-> message]

\* email: Joi.string().email().required()
ValidateEmail(raw) ==
    IF raw.t = "absent" THEN MessageOnly("Email is required")
    ELSE IF raw.t # "string" THEN MessageOnly("\"email\" must be a string")
    ELSE IF raw.text = "" THEN MessageOnly("\"email\" is not allowed to be empty")
    ELSE IF ~EmailSyntaxOk(raw.text) THEN MessageOnly("Please provide a valid email address")
    ELSE [ok |-> TRUE, value |-> raw.text]

\* the password rule without its pattern
ValidateNewPassword_LengthOnly(raw) ==
    IF raw.t = "absent" THEN MessageOnly("Password is required")
    ELSE IF raw.t # "string" THEN MessageOnly("\"password\" must be a string")
    ELSE IF raw.text = << >> THEN MessageOnly("\"password\" is not allowed to be empty")
    ELSE IF Len(raw.text) < MIN_PASSWORD
    THEN MessageOnly("Password must be at least 8 characters long")
    ELSE [ok |-> TRUE, value |-> raw.text]

\* password of registerSchema: Joi.string().min(8).pattern(...).required()
ValidateNewPassword(raw) ==
    IF raw.t = "absent" THEN MessageOnly("Password is required")
    ELSE IF raw.t # "string" THEN MessageOnly("\"password\" must be a string")
    ELSE IF raw.text = << >> THEN MessageOnly("\"password\" is not allowed to be empty")
    ELSE IF Len(raw.text) < MIN_PASSWORD
    THEN MessageOnly("Password must be at least 8 characters long")
    ELSE IF ~PasswordPattern(raw.text)
    THEN MessageOnly("Password must contain at least one uppercase letter, one lowercase letter, and one number")
    ELSE [ok |-> TRUE, value |-> raw.text]

\* password of loginSchema: Joi.string().required()
ValidatePassword(raw) ==
    IF raw.t = "absent" THEN MessageOnly("Password is required")
    ELSE IF raw.t # "string" THEN MessageOnly("\"password\" must be a string")
    ELSE IF raw.text = << >> THEN MessageOnly("\"password\" is not allowed to be empty")
    ELSE [ok |-> TRUE, value |-> raw.text]

\* firstName, lastName: Joi.string().trim().min(1).max(50).optional()
ValidateName(raw, key, maxMessage) ==
    IF raw.t = "absent" THEN [ok |-> TRUE, value |-> Absent]
    ELSE IF raw.t # "string" THEN MessageOnly("\"" \o key \o "\" must be a string")
    ELSE IF Trim(raw.text) = << >>
    THEN MessageOnly("\"" \o key \o "\" is not allowed to be empty")
    ELSE IF Len(Trim(raw.text)) > 50 THEN MessageOnly(maxMessage)
    ELSE [ok |-> TRUE, value |-> [t |-> "string", text |-> Trim(raw.text)]]

\* registerSchema.validate(req.body): keys in schema order, abortEarly
registerSchema(body) ==
    LET e == ValidateEmail(body.email)
        p == ValidateNewPassword(body.password)
        f == ValidateName(body.firstName, "firstName", "First name cannot exceed 50 characters")
        l == ValidateName(body.lastName, "lastName", "Last name cannot exceed 50 characters")
    IN  IF ~e.ok THEN e
        ELSE IF ~p.ok THEN p
        ELSE IF ~f.ok THEN f
        ELSE IF ~l.ok THEN l
        ELSE [ok |-> TRUE,
              value |-> [email |-> e.value, password |-> p.value,
                         firstName |-> f.value, lastName |-> l.value]]

\* loginSchema.validate(req.body)
loginSchema(body) ==
    LET e == ValidateEmail(body.email)
        p == ValidatePassword(body.password)
    IN  IF ~e.ok THEN e
        ELSE IF ~p.ok THEN p
        ELSE [ok |-> TRUE, value |-> [email |-> e.value, password |-> p.value]]

\* firstName || '' : undefined becomes the empty string
OrEmpty(v) == IF v.t = "absent" THEN << >> ELSE v.text

(***************************************************************************)
(* UserService over the tables.                                            *)
(***************************************************************************)
SALT_ROUNDS == 12

NoRow == [null |-> TRUE]

\* bcrypt.hash / bcrypt.compare
hashPassword(password) == [bcrypt |-> SALT_ROUNDS, of |-> password]

comparePassword(password, hashedPassword) == hashedPassword.of = password

\* getUserByEmail finding no row
getUserByEmail_NeverFinds(tbl, email) == NoRow

\* SELECT * FROM users WHERE email = ?
getUserByEmail(tbl, email) ==
    LET hits == {i \in 1..Len(tbl) : tbl[i].email = email} IN
    IF hits = {} THEN NoRow ELSE tbl[CHOOSE i \in hits : \A j \in hits : i <= j]

\* the UNIQUE constraint of users.email, met by the INSERT of createUser
EmailTaken(tbl, email) == \E i \in 1..Len(tbl) : tbl[i].email = email

\* the row INSERT INTO users adds, id from AUTOINCREMENT
NewUserRow(tbl, email, hashedPassword, firstName, lastName, t) ==
    [id |-> Len(tbl) + 1, email |-> email, password |-> hashedPassword,
     firstName |-> firstName, lastName |-> lastName, createdAt |-> t, updatedAt |-> t]

\* SELECT id, email, firstName, lastName, createdAt, updatedAt FROM users WHERE id = ?
getUserById(tbl, id) ==
    IF id \in 1..Len(tbl)
    THEN [id |-> tbl[id].id, email |-> tbl[id].email, firstName |-> tbl[id].firstName,
          lastName |-> tbl[id].lastName, createdAt |-> tbl[id].createdAt,
          updatedAt |-> tbl[id].updatedAt]
    ELSE NoRow

\* what createUser resolves with
CreatedUser(row) ==
    [id |-> row.id, email |-> row.email, firstName |-> row.firstName, lastName |-> row.lastName]

\* authenticateUser telling an unknown email from a wrong password
authenticateUser_TellsApart(tbl, email, password) ==
    LET user == getUserByEmail(tbl, email) IN
    IF user = NoRow THEN [error |-> "User not found"]
    ELSE IF ~comparePassword(password, user.password)
    THEN [error |-> "Invalid email or password"]
    ELSE [error |-> "", user |-> CreatedUser(user)]

\* authenticateUser: the user without its password, or the error thrown
authenticateUser(tbl, email, password) ==
    LET user == getUserByEmail(tbl, email) IN
    IF user = NoRow THEN [error |-> "Invalid email or password"]
    ELSE IF ~comparePassword(password, user.password)
    THEN [error |-> "Invalid email or password"]
    ELSE [error |-> "", user |-> CreatedUser(user)]

(***************************************************************************)
(* JSON.stringify / JSON.parse of a suggestion list, as the lexical        *)
(* tokens of the text: punctuation, and [str |-> s] for a string literal.  *)
(***************************************************************************)
P(c) == [punct |-> c]
S(s) == [str |-> s]

stringifyObject(o) ==
    << P("{"), S("name"), P(":"), S(o.name), P(","),
       S("description"), P(":"), S(o.description), P("}") >>

RECURSIVE stringifyItems(_)
stringifyItems(list) ==
    IF list = << >> THEN << >>
    ELSE IF Len(list) = 1 THEN stringifyObject(list[1])
    ELSE stringifyObject(list[1]) \o << P(",") >> \o stringifyItems(Tail(list))

JSONstringify(list) == << P("[") >> \o stringifyItems(list) \o << P("]") >>

\* one object read from the tokens at position i: { key : value , key : value }
parseObject(text, i) ==
    (text[i + 1].str :> text[i + 3].str) @@ (text[i + 5].str :> text[i + 7].str)

RECURSIVE parseItems(_, _)
parseItems(text, i) ==
    IF text[i] = P("]") THEN << >>
    ELSE IF text[i] = P(",") THEN parseItems(text, i + 1)
    ELSE << parseObject(text, i) >> \o parseItems(text, i + 9)

JSONparse(text) == parseItems(text, 2)

(***************************************************************************)
(* The suggestion history.                                                 *)
(***************************************************************************)
\* NewSuggestionRow filing the row under the first user
NewSuggestionRow_FirstUser(tbl, userId, age, healthGoal, suggestions, t) ==
    [id |-> Len(tbl) + 1, userId |-> 1, age |-> age, healthGoal |-> healthGoal,
     suggestions |-> JSONstringify(suggestions), createdAt |-> t]

\* the row INSERT INTO user_suggestions adds
NewSuggestionRow(tbl, userId, age, healthGoal, suggestions, t) ==
    [id |-> Len(tbl) + 1, userId |-> userId, age |-> age, healthGoal |-> healthGoal,
     suggestions |-> JSONstringify(suggestions), createdAt |-> t]

\* the columns the SELECT of getUserSuggestions names, suggestions parsed
SelectedRow(row) ==
    [id |-> row.id, age |-> row.age, healthGoal |-> row.healthGoal,
     suggestions |-> JSONparse(row.suggestions), createdAt |-> row.createdAt]

\* the rows selected with WHERE userId <= ?
OrderedByCreatedAtDesc_UpToUser(tbl, userId) ==
    LET ids == {i \in 1..Len(tbl) : tbl[i].userId <= userId}
        n == Cardinality(ids)
    IN  {s \in [1..n -> ids] :
            /\ \A i, j \in 1..n : i # j => s[i] # s[j]
            /\ \A i, j \in 1..n : i < j => tbl[s[i]].createdAt >= tbl[s[j]].createdAt}

\* WHERE userId = ? ORDER BY createdAt DESC: every order of the user's rows that
\* the ORDER BY allows (rows of equal createdAt come in any order)
OrderedByCreatedAtDesc(tbl, userId) ==
    LET ids == {i \in 1..Len(tbl) : tbl[i].userId = userId}
        n == Cardinality(ids)
    IN  {s \in [1..n -> ids] :
            /\ \A i, j \in 1..n : i # j => s[i] # s[j]
            /\ \A i, j \in 1..n : i < j => tbl[s[i]].createdAt >= tbl[s[j]].createdAt}

\* LIMIT ?: a negative limit is no limit
SqlLimit(s, limit) ==
    IF limit < 0 \/ limit >= Len(s) THEN s ELSE SubSeq(s, 1, limit)

\* getUserSuggestions without the WHERE userId = ? of its SELECT
getUserSuggestions_AllUsers(tbl, userId, limit) ==
    {[k \in DOMAIN SqlLimit(s, limit) |-> SelectedRow(tbl[s[k]])] :
        s \in UNION {OrderedByCreatedAtDesc(tbl, u) : u \in {tbl[i].userId : i \in 1..Len(tbl)}}
               \cup {<< >>}}

\* the results getUserSuggestions(userId, limit) can resolve with
getUserSuggestions(tbl, userId, limit) ==
    {[k \in DOMAIN SqlLimit(s, limit) |-> SelectedRow(tbl[s[k]])] :
        s \in OrderedByCreatedAtDesc(tbl, userId)}

\* parseInt of a query parameter: NaN, or the integer part
parseInt(raw) ==
    IF raw.t = "string" /\ raw.numeric
    THEN [nan |-> FALSE,
          value |-> IF raw.tenths >= 0 THEN raw.tenths \div 10 ELSE -((-raw.tenths) \div 10)]
    ELSE [nan |-> TRUE]

\* parseInt(req.query.limit) || 10
QueryLimit(raw) ==
    LET n == parseInt(raw) IN
    IF n.nan \/ n.value = 0 THEN DEFAULT_LIMIT ELSE n.value

(***************************************************************************)
(* The tokens the model keeps track of: at most MaxTokens of those minted. *)
(***************************************************************************)
Remembering(token) ==
    {k \in SUBSET (issued \cup {token}) : k # {} /\ Cardinality(k) <= MaxTokens}

(***************************************************************************)
(* POST /auth/register.  The handler runs to the INSERT in two steps:      *)
(* up to the answer of getUserByEmail, then from the INSERT to the         *)
(* response; other requests run in between.                                *)
(***************************************************************************)
\* the catch block of the route: the status and body for a thrown message
RegisterCatch(message) ==
    IF message = "User with this email already exists"
    THEN [status |-> 409,
          body |-> ErrorBody("An account with this email already exists", "EMAIL_EXISTS")]
    ELSE [status |-> 500,
          body |-> ErrorBody("Failed to register user. Please try again.", "REGISTRATION_ERROR")]

RegisterResponse(body, r, existed, storeFault) ==
    [op |-> "POST /auth/register", at |-> now, req |-> body,
     status |-> r.status, body |-> r.body,
     valid |-> registerSchema(body).ok, existed |-> existed, storeFault |-> storeFault]

RegisterStart(body, selectFails) ==
    LET v == registerSchema(body)
        \* whether a row with the email was there when the request was made
        existed == \E i \in 1..Len(users) : Str(users[i].email) = body.email
    IN
    /\ UNCHANGED <<now, users, history, issued, pending>>
    /\ IF ~v.ok
       THEN /\ resp' = RegisterResponse(body,
                   [status |-> 400,
                    body |-> ErrorBody(v.message, "VALIDATION_ERROR")], FALSE, FALSE)
            /\ reg' = reg
       ELSE IF selectFails
       THEN /\ resp' = RegisterResponse(body, RegisterCatch("Database error"),
                                         existed, TRUE)
            /\ reg' = reg
       ELSE IF getUserByEmail(users, v.value.email) # NoRow
       THEN /\ resp' = RegisterResponse(body,
                   RegisterCatch("User with this email already exists"), existed, FALSE)
            /\ reg' = reg
       ELSE /\ BagCardinality(reg) < MaxInflight
            /\ reg' = reg (+) SetToBag({[body |-> body, value |-> v.value, existed |-> existed]})
            /\ resp' = resp

RegisterFinish(r, insertFails) ==
    LET email == r.value.email
        firstName == OrEmpty(r.value.firstName)
        lastName == OrEmpty(r.value.lastName)
        row == NewUserRow(users, email, hashPassword(r.value.password), firstName, lastName, now)
        token == generateToken(CreatedUser(row), now)
    IN
    /\ BagIn(r, reg)
    /\ reg' = reg (-) SetToBag({r})
    /\ UNCHANGED <<now, history, pending>>
    /\ IF insertFails \/ EmailTaken(users, email)
       THEN /\ resp' = RegisterResponse(r.body, RegisterCatch("Failed to create user"),
                                         r.existed, insertFails)
            /\ UNCHANGED <<users, issued>>
       ELSE /\ users' = Append(users, row)
            /\ issued' \in Remembering(token)
            /\ resp' = RegisterResponse(r.body,
                   [status |-> 201,
                    body |-> [success |-> TRUE,
                              data |-> [message |-> "User registered successfully",
                                        user |-> CreatedUser(row),
                                        token |-> token]]], r.existed, FALSE)

(***************************************************************************)
(* POST /auth/login                                                        *)
(***************************************************************************)
LoginCatch(message) ==
    IF message = "Invalid email or password"
    THEN [status |-> 401,
          body |-> ErrorBody("Invalid email or password", "INVALID_CREDENTIALS")]
    ELSE [status |-> 500,
          body |-> ErrorBody("Login failed. Please try again.", "LOGIN_ERROR")]

LoginResponse(body, r, storeFault) ==
    [op |-> "POST /auth/login", at |-> now, req |-> body,
     status |-> r.status, body |-> r.body, storeFault |-> storeFault]

Login(body, selectFails) ==
    LET v == loginSchema(body) IN
    /\ UNCHANGED <<now, users, history, reg, pending>>
    /\ IF ~v.ok
       THEN /\ resp' = LoginResponse(body,
                   [status |-> 400, body |-> ErrorBody(v.message, "VALIDATION_ERROR")], FALSE)
            /\ issued' = issued
       ELSE IF selectFails
       THEN /\ resp' = LoginResponse(body, LoginCatch("Database error"), TRUE)
            /\ issued' = issued
       ELSE LET a == authenticateUser(users, v.value.email, v.value.password) IN
            IF a.error # ""
            THEN /\ resp' = LoginResponse(body, LoginCatch(a.error), FALSE)
                 /\ issued' = issued
            ELSE LET token == generateToken(a.user, now) IN
                 /\ issued' \in Remembering(token)
                 /\ resp' = LoginResponse(body,
                        [status |-> 200,
                         body |-> [success |-> TRUE,
                                   data |-> [message |-> "Login successful",
                                             user |-> a.user,
                                             token |-> token]]], FALSE)

(***************************************************************************)
(* GET /auth/verify                                                        *)
(***************************************************************************)
Verify(header) ==
    LET a == verifyToken(header, now) IN
    /\ UNCHANGED <<now, users, history, issued, reg, pending>>
    /\ resp' = IF ~a.next
               THEN [op |-> "GET /auth/verify", at |-> now, header |-> header,
                     minted |-> Minted(header), status |-> a.status, body |-> a.body]
               ELSE [op |-> "GET /auth/verify", at |-> now, header |-> header,
                     minted |-> Minted(header), status |-> 200,
                     body |-> [success |-> TRUE,
                               data |-> [valid |-> TRUE,
                                         user |-> [id |-> a.user.id, email |-> a.user.email,
                                                   firstName |-> a.user.firstName,
                                                   lastName |-> a.user.lastName]]]]

(***************************************************************************)
(* GET /auth/profile                                                       *)
(***************************************************************************)
ProfileResponse(header, status, resBody, storeFault) ==
    [op |-> "GET /auth/profile", at |-> now, header |-> header, minted |-> Minted(header),
     status |-> status, body |-> resBody, storeFault |-> storeFault]

GetProfile(header, selectFails) ==
    LET a == verifyToken(header, now) IN
    /\ UNCHANGED <<now, users, history, issued, reg, pending>>
    /\ IF ~a.next
       THEN resp' = ProfileResponse(header, a.status, a.body, FALSE)
       ELSE IF selectFails
       THEN resp' = ProfileResponse(header, 500,
                ErrorBody("Failed to fetch profile", "PROFILE_FETCH_ERROR"), TRUE)
       ELSE LET user == getUserById(users, a.user.id) IN
            IF user = NoRow
            THEN resp' = ProfileResponse(header, 404,
                    ErrorBody("User not found", "USER_NOT_FOUND"), FALSE)
            ELSE resp' = ProfileResponse(header, 200,
                    [success |-> TRUE,
                     data |-> [user |-> [id |-> user.id, email |-> user.email,
                                         firstName |-> user.firstName,
                                         lastName |-> user.lastName,
                                         createdAt |-> user.createdAt,
                                         updatedAt |-> user.updatedAt]]], FALSE)

(***************************************************************************)
(* POST /suggestions: optionalAuth, validateSuggestionsRequest, handler.   *)
(* The analytics calls of the handler write the analytics service's own    *)
(* state only and are each wrapped in try/catch; they are not part of      *)
(* this state.                                                             *)
(***************************************************************************)
SuggestionsResponse(header, body, status, resBody, saveFails) ==
    [op |-> "POST /suggestions", at |-> now, header |-> header, minted |-> Minted(header),
     req |-> body, status |-> status, body |-> resBody, saveFails |-> saveFails]

PostSuggestions(header, body, readFails, saveFails) ==
    LET user == optionalAuth(header, now)
        v == suggestionsSchema(body)
    IN
    /\ UNCHANGED <<now, users, issued, reg>>
    /\ IF ~v.ok
       THEN /\ resp' = SuggestionsResponse(header, body, 400,
                   [success |-> FALSE,
                    error |-> [message |-> v.message, field |-> v.field,
                               code |-> "VALIDATION_ERROR"]], saveFails)
            /\ history' = history
       ELSE LET age == v.value.age
                healthGoal == v.value.healthGoal
                isAuthenticated == user # NoUser
            IN  \E userHistory \in
                    (IF isAuthenticated /\ ~readFails
                     THEN getUserSuggestions(history, user.id, HISTORY_PEEK)
                     ELSE {<< >>}) :
                LET suggestions ==
                        generateSuggestions(age, healthGoal, isAuthenticated, userHistory)
                    saves == isAuthenticated /\ ~saveFails
                IN  /\ saves => Len(history) < MaxHistory
                    /\ history' =
                         IF saves
                         THEN Append(history,
                                NewSuggestionRow(history, user.id, age, healthGoal,
                                                 suggestions, now))
                         ELSE history
                    /\ resp' = SuggestionsResponse(header, body, 200,
                         [success |-> TRUE, suggestions |-> suggestions,
                          meta |-> [goalCategory |-> healthGoal,
                                    authenticated |-> isAuthenticated]], saveFails)

(***************************************************************************)
(* GET /suggestions/goals                                                  *)
(***************************************************************************)
\* a list that leaves out the last goal
GoalList_Five ==
    <<[value |-> "energy", label |-> "Energy & Vitality"],
      [value |-> "sleep", label |-> "Better Sleep"],
      [value |-> "focus", label |-> "Mental Focus"],
      [value |-> "recovery", label |-> "Recovery & Repair"],
      [value |-> "weight_management", label |-> "Weight Management"]>>

\* const goals of the route
GoalList ==
    <<[value |-> "energy", label |-> "Energy & Vitality"],
      [value |-> "sleep", label |-> "Better Sleep"],
      [value |-> "focus", label |-> "Mental Focus"],
      [value |-> "recovery", label |-> "Recovery & Repair"],
      [value |-> "weight_management", label |-> "Weight Management"],
      [value |-> "immune_support", label |-> "Immune Support"]>>

GetGoals ==
    /\ resp' = [op |-> "GET /suggestions/goals", at |-> now, status |-> 200,
                body |-> [success |-> TRUE, goals |-> GoalList]]
    /\ UNCHANGED <<now, users, history, issued, reg, pending>>

(***************************************************************************)
(* GET /auth/suggestions?limit=N                                           *)
(***************************************************************************)
HistoryResponse(header, limit, status, resBody, storeFault) ==
    [op |-> "GET /auth/suggestions", at |-> now, header |-> header,
     minted |-> Minted(header), limit |-> limit, status |-> status, body |-> resBody, storeFault |-> storeFault]

GetHistory(header, limit, selectFails) ==
    LET a == verifyToken(header, now) IN
    /\ UNCHANGED <<now, users, history, issued, reg, pending>>
    /\ IF ~a.next
       THEN resp' = HistoryResponse(header, limit, a.status, a.body, FALSE)
       ELSE IF selectFails
       THEN resp' = HistoryResponse(header, limit, 500,
                ErrorBody("Failed to fetch suggestion history", "SUGGESTIONS_FETCH_ERROR"),
                TRUE)
       ELSE \E rows \in getUserSuggestions(history, a.user.id, QueryLimit(limit)) :
                resp' = HistoryResponse(header, limit, 200,
                    [success |-> TRUE,
                     data |-> [suggestions |-> rows, total |-> Len(rows)]], FALSE)

(***************************************************************************)
(* The clock.                                                              *)
(***************************************************************************)
Tick ==
    /\ now < MaxTime
    /\ now' = now + 1
    /\ UNCHANGED <<users, history, issued, reg, pending, resp>>

(***************************************************************************)
(* What clients send.                                                      *)
(***************************************************************************)
Emails == {"a@x.com", "b@x.com"}

GoodPassword == <<"A", "b", "c", "d", "e", "f", "1", "2">>
WeakPassword == <<"a", "b", "c", "d", "e", "f", "g", "h">>
OtherPassword == <<"X", "y", "z", "9", "8", "7", "6", "5">>

RegisterBody(email, password) ==
    [email |-> Str(email), password |-> Str(password),
     firstName |-> Str(<<" ", "A", "n", "n">>), lastName |-> Absent]

RegisterBodies ==
    {RegisterBody(e, GoodPassword) : e \in Emails}
        \cup {RegisterBody("a@x.com", WeakPassword)}

LoginBodies ==
    {[email |-> Str(e), password |-> Str(GoodPassword)] : e \in Emails}
        \cup {[email |-> Str("a@x.com"), password |-> Str(OtherPassword)]}

\* a token signed with a key that is not the server's
Forged(token) == [token EXCEPT !.sig = HS256(token.claims, "attacker-key")]

ForgedToken ==
    Forged(jwtSign([id |-> 1, email |-> "a@x.com", firstName |-> << >>, lastName |-> << >>],
                   JWT_SECRET, 0))

\* the headers a client can send that carry no token the server minted
TokenlessHeaders == {NoHeader, BasicHeader, Bearer(NotAJwt("garbage")), Bearer(ForgedToken)}

Headers == TokenlessHeaders \cup {Bearer(t) : t \in issued}

\* the headers of a client without forgeries: none, or a minted token (expired or not)
HistoryHeaders == {NoHeader} \cup {Bearer(t) : t \in issued}

SuggestionBody(age, healthGoal) == [age |-> age, healthGoal |-> healthGoal, extra |-> FALSE]

SuggestionBodies ==
    {SuggestionBody(Num(250), Str("energy")), SuggestionBody(NumStr(400), Str("sleep")),
     SuggestionBody(Num(170), Str("energy"))}

Limits == {Absent, NumStr(10)}

NoPending == [sent |-> TRUE]

(***************************************************************************)
(* The analytics service (class AnalyticsService).  analytics.json maps a  *)
(* date to the record of that day; a date is its day number, the clock     *)
(* unit being half the lifetime of a token.  A count per goal is a         *)
(* function from the goals seen to their counts.                           *)
(***************************************************************************)
TOKEN_DAYS == 7
RETENTION_DAYS == 90

\* new Date().toISOString().split('T')[0]
DateOf(t) == (TOKEN_DAYS * t) \div JWT_EXPIRES_IN

NoCount == [g \in {} |-> 0]

\* if (!counts[goal]) counts[goal] = 0; counts[goal]++
Increment(counts, goal) ==
    [g \in DOMAIN counts \cup {goal} |->
        IF g = goal THEN (IF goal \in DOMAIN counts THEN counts[goal] + 1 ELSE 1)
        ELSE counts[g]]

\* const dailyCounters of the AnalyticsService constructor
NoCounters == [requests |-> 0, goalSelections |-> NoCount, errors |-> 0, successfulRequests |-> 0]

\* data/analytics.json holds no date
NoFile == [d \in {} |-> 0]

Timestamp(t) == [t |-> "date", at |-> t]

\* the record updateDailyAnalytics creates for a date it does not find
EmptyDay(date) ==
    [date |-> date, totalRequests |-> 0, successfulRequests |-> 0, failedRequests |-> 0,
     goalSelections |-> NoCount, errors |-> << >>, averageResponseTime |-> 0,
     uniqueIPs |-> {}, firstRequest |-> Null, lastRequest |-> Null]

\* data.ip || 'unknown', data being the health goal (a string) the route passes
IpOf(data) == "unknown"

\* the switch of updateDailyAnalytics on one day's record
UpdatedDay(dayData, eventType, data, t) ==
    LET seen == [dayData EXCEPT
                    !.totalRequests = @ + 1,
                    !.uniqueIPs = @ \cup {IpOf(data)},
                    !.lastRequest = Timestamp(t),
                    !.firstRequest = IF @ = Null THEN Timestamp(t) ELSE @]
    IN
    CASE eventType = "goalSelection" ->
            [dayData EXCEPT !.goalSelections = Increment(@, data)]
      [] eventType = "successfulRequest" ->
            [seen EXCEPT !.successfulRequests = @ + 1]
      [] eventType = "failedRequest" ->
            [seen EXCEPT !.failedRequests = @ + 1,
                         !.errors = Append(@, [timestamp |-> Timestamp(t)])]
      [] OTHER -> dayData

\* an update that prunes nothing
UpdatedAnalytics_KeepsAll(existing, date, eventType, data, t) ==
    LET dayData == IF date \in DOMAIN existing THEN existing[date] ELSE EmptyDay(date) IN
    [d \in DOMAIN existing \cup {date} |->
        IF d = date THEN UpdatedDay(dayData, eventType, data, t) ELSE existing[d]]

\* what updateDailyAnalytics writes back, given what it read
UpdatedAnalytics(existing, date, eventType, data, t) ==
    LET dayData == IF date \in DOMAIN existing THEN existing[date] ELSE EmptyDay(date)
        cutoffDate == DateOf(t) - RETENTION_DAYS
        kept == {d \in DOMAIN existing \cup {date} : ~(d < cutoffDate)}
    IN  [d \in kept |->
            IF d = date THEN UpdatedDay(dayData, eventType, data, t) ELSE existing[d]]

\* the part of logSuccessfulRequest that runs before its first await
logSuccessfulRequest(counters) ==
    [counters EXCEPT !.requests = @ + 1, !.successfulRequests = @ + 1]

\* a logFailedRequest that counts the error and not the request
logFailedRequest_ErrorOnly(counters) ==
    [counters EXCEPT !.errors = @ + 1]

\* the part of logFailedRequest that runs before its first await
logFailedRequest(counters) ==
    [counters EXCEPT !.requests = @ + 1, !.errors = @ + 1]

\* the part of logGoalSelection that runs before its first await
logGoalSelection(counters, goal) ==
    [counters EXCEPT !.goalSelections = Increment(@, goal)]

(***************************************************************************)
(* POST /suggestions followed from await to await.  A handler in flight is *)
(* a record: who asked, the validated body, where it waits (pc) and, while *)
(* updateDailyAnalytics waits for fs.writeFile, the content it will write. *)
(* pc is "read" (waiting for fs.readFile), "write" (waiting for            *)
(* fs.writeFile) or "generate" (the analytics block is over).  An          *)
(* exception thrown inside the route's try block is the input fault, one   *)
(* thrown by the analytics logger is logFails; aux remembers whether an    *)
(* analytics or history operation of the request failed, fault whether the *)
(* route's outer catch block was entered for it.                           *)
(***************************************************************************)
GenerationError ==
    [success |-> FALSE,
     error |-> [message |-> "Failed to generate suggestions. Please try again.",
                code |-> "GENERATION_ERROR", requestId |-> "uuid"]]

TrackedResponse(j, status, resBody, saveFails, fault) ==
    [op |-> "POST /suggestions", at |-> now, header |-> j.header,
     minted |-> Minted(j.header), req |-> j.body, status |-> status, body |-> resBody,
     saveFails |-> saveFails, fault |-> fault, aux |-> j.aux \/ saveFails]

\* where the route goes on when its analytics block throws: the catch of
\* lines 192-198 logs and continues with the generation
CaughtAnalyticsFailure_Rethrown == "respond"

CaughtAnalyticsFailure == "generate"

\* a log call of the service up to its await of updateDailyAnalytics
Logging(j, event, logFails, onThrow) ==
    [j EXCEPT !.pc = IF logFails THEN onThrow ELSE "read",
              !.event = event, !.date = DateOf(now), !.aux = @ \/ logFails]

\* the outer catch of the route: logFailedRequest, then the 500
Catch(j, counters, logFails) ==
    [counters |-> logFailedRequest(counters),
     job |-> Logging([j EXCEPT !.fault = TRUE], "failedRequest", logFails, "respond")]

\* the handlers old give way to k, which answers 500 once its catch block is over
Continue(old, k, started) ==
    /\ jobs' = IF k.pc = "respond" THEN jobs (-) old ELSE (jobs (-) old) (+) SetToBag({k})
    /\ IF k.pc = "respond"
       THEN /\ resp' = TrackedResponse(k, 500, GenerationError, FALSE, k.fault)
            /\ served' = [served EXCEPT !.begun = @ + started, !.failed = @ + 1,
                                        !.clean = FALSE]
       ELSE /\ resp' = resp
            /\ served' = [served EXCEPT !.begun = @ + started, !.clean = @ /\ ~k.aux]

\* the handler runs up to its first await of the analytics file
PostBegin(header, body, readFails, fault, logFails) ==
    LET user == optionalAuth(header, now)
        v == suggestionsSchema(body)
    IN
    /\ UNCHANGED <<now, users, history, issued, reg, pending>>
    /\ IF ~v.ok
       THEN /\ resp' = SuggestionsResponse(header, body, 400,
                   [success |-> FALSE,
                    error |-> [message |-> v.message, field |-> v.field,
                               code |-> "VALIDATION_ERROR"]], FALSE)
            /\ UNCHANGED <<analytics, jobs, served>>
       ELSE LET isAuthenticated == user # NoUser
                reads == isAuthenticated /\ ~fault
            IN
            /\ served.begun < MaxRequests
            /\ \E userHistory \in
                    (IF reads /\ ~readFails
                     THEN getUserSuggestions(history, user.id, HISTORY_PEEK)
                     ELSE {<< >>}) :
                LET j == [header |-> header, body |-> body, user |-> user,
                          age |-> v.value.age, healthGoal |-> v.value.healthGoal,
                          userHistory |-> userHistory, pc |-> "begin",
                          event |-> "none", date |-> DateOf(now), content |-> NoFile,
                          aux |-> reads /\ readFails, fault |-> FALSE]
                    c == IF fault THEN Catch(j, analytics.dailyCounters, logFails)
                         ELSE [counters |-> logSuccessfulRequest(analytics.dailyCounters),
                               job |-> Logging(j, "successfulRequest", logFails,
                                               CaughtAnalyticsFailure)]
                IN  /\ analytics' = [analytics EXCEPT !.dailyCounters = c.counters]
                    /\ Continue(EmptyBag, c.job, 1)

\* fs.readFile of updateDailyAnalytics settles: JSON.parse, the update of the
\* day's record and the pruning run, and fs.writeFile is called
AnalyticsRead(j, fileReadFails) ==
    LET existing == IF fileReadFails THEN NoFile ELSE analytics.file
        data == j.healthGoal
        k == [j EXCEPT !.pc = "write", !.aux = @ \/ fileReadFails,
                       !.content = UpdatedAnalytics(existing, j.date, j.event, data, now)]
    IN
    /\ BagIn(j, jobs)
    /\ j.pc = "read"
    /\ UNCHANGED <<now, users, history, issued, reg, pending, analytics>>
    /\ Continue(SetToBag({j}), k, 0)

\* fs.writeFile of updateDailyAnalytics settles (its failure is logged and
\* swallowed), and the route goes on to its next await
AnalyticsWrite(j, writeFails, logFails) ==
    LET file == IF writeFails THEN analytics.file ELSE j.content
        done == [j EXCEPT !.content = NoFile, !.aux = @ \/ writeFails]
        c == CASE j.event = "successfulRequest" ->
                    [counters |-> logGoalSelection(analytics.dailyCounters, j.healthGoal),
                     job |-> Logging(done, "goalSelection", logFails,
                                     CaughtAnalyticsFailure)]
               [] j.event = "goalSelection" ->
                    [counters |-> analytics.dailyCounters,
                     job |-> [done EXCEPT !.pc = "generate"]]
               [] OTHER ->
                    [counters |-> analytics.dailyCounters,
                     job |-> [done EXCEPT !.pc = "respond"]]
    IN
    /\ BagIn(j, jobs)
    /\ j.pc = "write"
    /\ UNCHANGED <<now, users, history, issued, reg, pending>>
    /\ analytics' = [file |-> file, dailyCounters |-> c.counters]
    /\ Continue(SetToBag({j}), c.job, 0)

\* the rest of the try block: the generation, the save and the 200
PostFinish(j, saveFails, fault, logFails) ==
    LET isAuthenticated == j.user # NoUser
        suggestions ==
            generateSuggestions(j.age, j.healthGoal, isAuthenticated, j.userHistory)
        saves == isAuthenticated /\ ~saveFails
        c == Catch(j, analytics.dailyCounters, logFails)
    IN
    /\ BagIn(j, jobs)
    /\ j.pc = "generate"
    /\ UNCHANGED <<now, users, issued, reg, pending>>
    /\ IF fault
       THEN /\ analytics' = [analytics EXCEPT !.dailyCounters = c.counters]
            /\ history' = history
            /\ Continue(SetToBag({j}), c.job, 0)
       ELSE /\ saves => Len(history) < MaxHistory
            /\ history' =
                 IF saves
                 THEN Append(history,
                        NewSuggestionRow(history, j.user.id, j.age, j.healthGoal,
                                         suggestions, now))
                 ELSE history
            /\ analytics' = analytics
            /\ jobs' = jobs (-) SetToBag({j})
            /\ served' = [served EXCEPT !.ok = Increment(@, j.healthGoal),
                                        !.clean = @ /\ ~(isAuthenticated /\ saveFails)]
            /\ resp' = TrackedResponse(j, 200,
                 [success |-> TRUE, suggestions |-> suggestions,
                  meta |-> [goalCategory |-> j.healthGoal,
                            authenticated |-> isAuthenticated]],
                 isAuthenticated /\ saveFails, FALSE)

(***************************************************************************)
(* The analytics service and the rate limiters before any request.         *)
(***************************************************************************)
NoServed == [begun |-> 0, ok |-> NoCount, failed |-> 0, clean |-> TRUE]

\* the hits of the client in the current window of each limiter, and how
\* many of them went on to the next middleware
NoHits == [general |-> [hits |-> 0, admitted |-> 0], auth |-> [hits |-> 0, admitted |-> 0]]

\* nothing of the kind is followed
AsideIdle ==
    /\ timer = [followed |-> FALSE]
    /\ boot = [followed |-> FALSE]
    /\ window = [followed |-> FALSE]
    /\ client = [followed |-> FALSE]

AsideInit ==
    /\ analytics = [file |-> NoFile, dailyCounters |-> NoCounters]
    /\ jobs = EmptyBag
    /\ served = NoServed
    /\ limits = NoHits
    /\ AsideIdle

Untracked == UNCHANGED <<analytics, jobs, served, limits, aside>>

(***************************************************************************)
(* Spec: the authentication endpoints on an empty store.                   *)
(***************************************************************************)
Init ==
    /\ now = 0
    /\ users = << >>
    /\ history = << >>
    /\ issued = {}
    /\ reg = EmptyBag
    /\ pending = NoPending
    /\ resp = [op |-> "none"]
    /\ AsideInit

Next ==
    \/ \E body \in RegisterBodies, selectFails \in BOOLEAN : RegisterStart(body, selectFails) /\ Untracked
    \/ \E r \in BagToSet(reg), insertFails \in BOOLEAN : RegisterFinish(r, insertFails) /\ Untracked
    \/ \E body \in LoginBodies, selectFails \in BOOLEAN : Login(body, selectFails) /\ Untracked
    \/ \E header \in Headers : Verify(header) /\ Untracked
    \/ \E header \in HistoryHeaders, selectFails \in BOOLEAN : GetProfile(header, selectFails) /\ Untracked
    \/ \E header \in HistoryHeaders, selectFails \in BOOLEAN :
            GetHistory(header, Absent, selectFails) /\ Untracked
    \/ Tick /\ Untracked

Spec == Init /\ [][Next]_vars

(***************************************************************************)
(* SpecHistory: the suggestion endpoints on a store that holds two         *)
(* registered users (the database file outlives the process).              *)
(***************************************************************************)
RECURSIVE Registered(_)
Registered(emails) ==
    IF emails = << >> THEN << >>
    ELSE LET before == Registered(SubSeq(emails, 1, Len(emails) - 1)) IN
         Append(before,
                NewUserRow(before, emails[Len(emails)], hashPassword(GoodPassword),
                           <<"A", "n", "n">>, << >>, 0))

InitHistory ==
    /\ now = 0
    /\ users = Registered(<<"a@x.com", "b@x.com">>)
    /\ history = << >>
    /\ issued = {}
    /\ reg = EmptyBag
    /\ pending = NoPending
    /\ resp = [op |-> "none"]
    /\ AsideInit

HistoryLogins == {[email |-> Str(e), password |-> Str(GoodPassword)] : e \in Emails}

NextHistory ==
    \/ \E body \in RegisterBodies : RegisterStart(body, FALSE) /\ Untracked
    \/ \E body \in HistoryLogins : Login(body, FALSE) /\ Untracked
    \/ \E header \in HistoryHeaders : Verify(header) /\ Untracked
    \/ \E header \in HistoryHeaders, body \in SuggestionBodies, readFails, saveFails \in BOOLEAN :
            PostSuggestions(header, body, readFails, saveFails) /\ pending' = pending /\ Untracked
    \/ \E header \in HistoryHeaders, limit \in Limits, selectFails \in BOOLEAN :
            GetHistory(header, limit, selectFails) /\ Untracked
    \/ Tick /\ Untracked

SpecHistory == InitHistory /\ [][NextHistory]_vars

(***************************************************************************)
(* SpecOptional: POST /suggestions under every kind of Authorization       *)
(* header, on the same store.                                              *)
(***************************************************************************)
OptionalHeaders == Headers \cup {Bearer(Forged(t)) : t \in issued}

OptionalBodies ==
    {SuggestionBody(Num(250), Str("energy")), SuggestionBody(Num(1210), Str("sleep"))}

NextOptional ==
    \/ \E body \in LoginBodies, selectFails \in BOOLEAN : Login(body, selectFails) /\ Untracked
    \/ \E header \in OptionalHeaders, body \in OptionalBodies, readFails, saveFails \in BOOLEAN :
            PostSuggestions(header, body, readFails, saveFails) /\ pending' = pending /\ Untracked
    \/ Tick /\ Untracked

SpecOptional == InitHistory /\ [][NextOptional]_vars

(***************************************************************************)
(* SpecInputs: one POST /suggestions, its body drawn from every age and    *)
(* goal a client can send, with no header, a minted token or a non-token.  *)
(***************************************************************************)
MaxAgeInput == 130

AgeInputs ==
    {Num(10 * a) : a \in 0..MaxAgeInput}
        \cup {NumStr(10 * a) : a \in 0..MaxAgeInput}
        \cup {Num(10 * a + 5) : a \in 0..MaxAgeInput}
        \cup {Num(-10), NumStr(645), Absent, Null, Str("abc")}

GoalInputs == {Str(g) : g \in Goals} \cup {Str("longevity"), Absent}

InitInputs ==
    /\ now = 0
    /\ users = Registered(<<"a@x.com">>)
    /\ history = << >>
    /\ issued = {}
    /\ reg = EmptyBag
    /\ pending \in {[sent |-> FALSE, cred |-> c, body |-> SuggestionBody(a, g)] :
                        c \in {"none", "token", "garbage"}, a \in AgeInputs, g \in GoalInputs}
    /\ resp = [op |-> "none"]
    /\ AsideInit

PendingHeaders ==
    IF pending.cred = "none" THEN {NoHeader}
    ELSE IF pending.cred = "garbage" THEN {Bearer(NotAJwt("garbage"))}
    ELSE {Bearer(t) : t \in issued}

SendPending ==
    /\ ~pending.sent
    /\ \E header \in PendingHeaders, readFails, saveFails \in BOOLEAN :
            PostSuggestions(header, pending.body, readFails, saveFails)
    /\ pending' = NoPending

NextInputs ==
    \/ Login([email |-> Str("a@x.com"), password |-> Str(GoodPassword)], FALSE) /\ Untracked
    \/ SendPending /\ Untracked
    \/ GetGoals /\ Untracked

SpecInputs == InitInputs /\ [][NextInputs]_vars

(***************************************************************************)
(* SpecAnalytics: POST /suggestions followed from await to await, with the *)
(* analytics service, for a registered user and anonymous callers.  At     *)
(* most MaxRequests requests pass validation.                              *)
(***************************************************************************)
InitAnalytics ==
    /\ now = 0
    /\ users = Registered(<<"a@x.com">>)
    /\ history = << >>
    /\ issued = {}
    /\ reg = EmptyBag
    /\ pending = NoPending
    /\ resp = [op |-> "none"]
    /\ AsideInit

\* a handler whose analytics block is over runs to its response
Finishing ==
    \E j \in BagToSet(jobs), saveFails, fault, logFails \in BOOLEAN :
        PostFinish(j, saveFails, fault, logFails) /\ UNCHANGED <<limits, aside>>

Handlers ==
    \/ \E header \in HistoryHeaders, body \in SuggestionBodies,
          readFails, fault, logFails \in BOOLEAN :
            PostBegin(header, body, readFails, fault, logFails) /\ UNCHANGED <<limits, aside>>
    \/ Finishing

FileSystem ==
    \/ \E j \in BagToSet(jobs), fileReadFails \in BOOLEAN :
            AnalyticsRead(j, fileReadFails) /\ UNCHANGED <<limits, aside>>
    \/ \E j \in BagToSet(jobs), writeFails, logFails \in BOOLEAN :
            AnalyticsWrite(j, writeFails, logFails) /\ UNCHANGED <<limits, aside>>

NextAnalytics ==
    \/ Login([email |-> Str("a@x.com"), password |-> Str(GoodPassword)], FALSE) /\ Untracked
    \/ Handlers
    \/ FileSystem

SpecAnalytics == InitAnalytics /\ [][NextAnalytics]_vars

\* The event loop runs a handler that can go on; nothing makes a read or a
\* write of analytics.json settle.
SpecAnalyticsFair == SpecAnalytics /\ WF_vars(Finishing)

\* The same, with every read and write of analytics.json settling.
SpecAnalyticsSettling == SpecAnalyticsFair /\ WF_vars(FileSystem)

(***************************************************************************)
(* The rate limiters (express-rate-limit 7, memory store, one client IP).  *)
(* A limiter counts the request first and turns it away when the count of  *)
(* the window exceeds max; the window of a client starts with its first    *)
(* hit and ends windowMs later, when its count is dropped (WindowReset).   *)
(* A window is far shorter than a unit of the clock.  A body whose error   *)
(* is a string holds it as Str(...).                                       *)
(***************************************************************************)
GENERAL_MAX == 100
AUTH_MAX == 5

\* the message option of the limiter of server.js
GeneralLimitBody == [error |-> Str("Too many requests from this IP, please try again later.")]

\* the message option of authLimiter
AuthLimitBody ==
    [success |-> FALSE,
     error |-> [message |-> "Too many authentication attempts, please try again later.",
                code |-> "TOO_MANY_ATTEMPTS"]]

\* a limiter that lets one request too many through
Exceeded_OffByOne(totalHits, max) == totalHits > max + 1

\* totalHits > limit
Exceeded(totalHits, max) == totalHits > max

\* the response of a limiter: statusCode 429, the message option, and with
\* standardHeaders the RateLimit headers and Retry-After
TooMany(op, limiter, resBody) ==
    [op |-> op, at |-> now, status |-> 429, body |-> resBody, limiter |-> limiter,
     headers |-> {"RateLimit-Policy", "RateLimit-Limit", "RateLimit-Remaining",
                  "RateLimit-Reset", "Retry-After"}]

Counted(l, admits) == [hits |-> l.hits + 1, admitted |-> l.admitted + (IF admits THEN 1 ELSE 0)]

\* app.use(limiter): every request passes the general limiter first
ViaLimiter(op, Handler) ==
    LET over == Exceeded(limits.general.hits + 1, GENERAL_MAX) IN
    /\ limits.general.hits < GENERAL_MAX + MaxOver
    /\ UNCHANGED aside
    /\ limits' = [limits EXCEPT !.general = Counted(@, ~over)]
    /\ IF over
       THEN /\ resp' = TooMany(op, "general", GeneralLimitBody)
            /\ UNCHANGED <<now, users, history, issued, reg, pending, analytics, jobs, served>>
       ELSE Handler

\* router.post(path, authLimiter, ...): the general limiter, then authLimiter
ViaAuthLimiter(op, Handler) ==
    LET over == Exceeded(limits.general.hits + 1, GENERAL_MAX)
        overAuth == Exceeded(limits.auth.hits + 1, AUTH_MAX)
    IN
    /\ limits.general.hits < GENERAL_MAX + MaxOver
    /\ ~over => limits.auth.hits < AUTH_MAX + MaxOver
    /\ UNCHANGED aside
    /\ limits' = IF over THEN [limits EXCEPT !.general = Counted(@, FALSE)]
                 ELSE [general |-> Counted(limits.general, TRUE),
                       auth |-> Counted(limits.auth, ~overAuth)]
    /\ IF over
       THEN /\ resp' = TooMany(op, "general", GeneralLimitBody)
            /\ UNCHANGED <<now, users, history, issued, reg, pending, analytics, jobs, served>>
       ELSE IF overAuth
       THEN /\ resp' = TooMany(op, "auth", AuthLimitBody)
            /\ UNCHANGED <<now, users, history, issued, reg, pending, analytics, jobs, served>>
       ELSE Handler

\* windowMs after the first hit of the window the count of the client is dropped
WindowReset(limiter) ==
    /\ limits[limiter].hits > 0
    /\ limits' = [limits EXCEPT ![limiter] = [hits |-> 0, admitted |-> 0]]
    /\ UNCHANGED <<now, users, history, issued, reg, pending, resp, analytics, jobs, served, aside>>

\* app.use('*'): no route matches
NotFound ==
    /\ resp' = [op |-> "404", at |-> now, status |-> 404,
                body |-> [success |-> FALSE,
                          error |-> [message |-> "The requested endpoint does not exist",
                                     code |-> "ENDPOINT_NOT_FOUND"],
                          availableEndpoints |-> "/api-docs"]]
    /\ UNCHANGED <<now, users, history, issued, reg, pending, analytics, jobs, served>>

\* the global error handler, reached when express.json() cannot parse the
\* body: error.statusCode is 400, the body carries message, errorId, timestamp
MalformedJson ==
    /\ resp' = [op |-> "malformed body", at |-> now, status |-> 400,
                body |-> [success |-> FALSE,
                          error |-> [message |-> "Unexpected token in JSON",
                                     errorId |-> "uuid", timestamp |-> now]]]
    /\ UNCHANGED <<now, users, history, issued, reg, pending, analytics, jobs, served>>

(***************************************************************************)
(* SpecLimits: one client behind the limiters, a user being registered:    *)
(* logins and registrations (behind both limiters), anonymous POST         *)
(* /suggestions one at a time with the analytics service followed, an      *)
(* unknown path and an unparsable body (behind the general limiter).  No   *)
(* store or analytics operation fails; the clock stands still.             *)
(***************************************************************************)
LimitedLogins ==
    {[email |-> Str("a@x.com"), password |-> Str(p)] : p \in {GoodPassword, OtherPassword}}

LimitedRegistrations == {RegisterBody("a@x.com", p) : p \in {GoodPassword, WeakPassword}}

LimitedSuggestions ==
    {SuggestionBody(Num(250), Str("energy")), SuggestionBody(Num(170), Str("energy"))}

NextLimits ==
    \/ \E body \in LimitedLogins :
            ViaAuthLimiter("POST /auth/login", Login(body, FALSE) /\ UNCHANGED <<analytics, jobs, served>>)
    \/ \E body \in LimitedRegistrations :
            ViaAuthLimiter("POST /auth/register",
                           RegisterStart(body, FALSE) /\ UNCHANGED <<analytics, jobs, served>>)
    \/ \E body \in LimitedSuggestions :
            /\ jobs = EmptyBag
            /\ ViaLimiter("POST /suggestions", PostBegin(NoHeader, body, FALSE, FALSE, FALSE))
    \/ \E j \in BagToSet(jobs) : AnalyticsRead(j, FALSE) /\ UNCHANGED <<limits, aside>>
    \/ \E j \in BagToSet(jobs) : AnalyticsWrite(j, FALSE, FALSE) /\ UNCHANGED <<limits, aside>>
    \/ \E j \in BagToSet(jobs) : PostFinish(j, FALSE, FALSE, FALSE) /\ UNCHANGED <<limits, aside>>
    \/ ViaLimiter("404", NotFound)
    \/ ViaLimiter("malformed body", MalformedJson)
    \/ \E limiter \in {"general", "auth"} : WindowReset(limiter)

SpecLimits == InitAnalytics /\ [][NextLimits]_vars

(***************************************************************************)
(* SpecRetention: the server starts over an analytics.json that earlier    *)
(* runs left behind, with records of 94, 90, 87 and 84 days before the     *)
(* start; anonymous POST /suggestions come one at a time while the clock   *)
(* advances.  No operation fails.                                          *)
(***************************************************************************)
OldDates == {0 - 94, 0 - 90, 0 - 87, 0 - 84}

\* the record of a day with one successful request
OldDay(d) ==
    [EmptyDay(d) EXCEPT !.totalRequests = 1, !.successfulRequests = 1,
                        !.uniqueIPs = {"unknown"}]

InitRetention ==
    /\ now = 0
    /\ users = << >>
    /\ history = << >>
    /\ issued = {}
    /\ reg = EmptyBag
    /\ pending = NoPending
    /\ resp = [op |-> "none"]
    /\ analytics = [file |-> [d \in OldDates |-> OldDay(d)], dailyCounters |-> NoCounters]
    /\ jobs = EmptyBag
    /\ served = NoServed
    /\ limits = NoHits
    /\ AsideIdle

NextRetention ==
    \/ \E body \in LimitedSuggestions :
            /\ jobs = EmptyBag
            /\ PostBegin(NoHeader, body, FALSE, FALSE, FALSE) /\ UNCHANGED <<limits, aside>>
    \/ \E j \in BagToSet(jobs) : AnalyticsRead(j, FALSE) /\ UNCHANGED <<limits, aside>>
    \/ \E j \in BagToSet(jobs) : AnalyticsWrite(j, FALSE, FALSE) /\ UNCHANGED <<limits, aside>>
    \/ \E j \in BagToSet(jobs) : PostFinish(j, FALSE, FALSE, FALSE) /\ UNCHANGED <<limits, aside>>
    \/ Tick /\ Untracked

SpecRetention == InitRetention /\ [][NextRetention]_vars

(***************************************************************************)
(* SpecSerial: anonymous POST /suggestions one at a time, so that no two   *)
(* analytics log operations overlap; exceptions in the route, failures of  *)
(* the logger and of the reads and writes of analytics.json, and the reset *)
(* of the in-memory counters by the midnight timer are all possible.       *)
(***************************************************************************)
\* the callback of the timers of resetCountersDaily
CountersReset ==
    /\ analytics.dailyCounters # NoCounters
    /\ analytics' = [analytics EXCEPT !.dailyCounters = NoCounters]
    /\ UNCHANGED <<now, users, history, issued, reg, pending, resp, jobs, served,
                   limits, aside>>

NextSerial ==
    \/ \E body \in LimitedSuggestions, fault, logFails \in BOOLEAN :
            /\ jobs = EmptyBag
            /\ PostBegin(NoHeader, body, FALSE, fault, logFails) /\ UNCHANGED <<limits, aside>>
    \/ Finishing
    \/ FileSystem
    \/ CountersReset
    \/ Tick /\ Untracked

SpecSerial == InitAnalytics /\ [][NextSerial]_vars

(***************************************************************************)
(* SpecTimer: resetCountersDaily.  The wall clock counts whole hours; the  *)
(* process starts at hour tod of a day and has run for elapsed hours.  A   *)
(* timer fires when its delay has passed, before the clock goes on; days   *)
(* have 24 hours (no change of the local offset).                          *)
(***************************************************************************)
DAY_HOURS == 24

\* a delay that is a whole day whenever the process starts
msUntilMidnight_FullDay(tod) == DAY_HOURS

\* tomorrow 00:00 local time minus now
msUntilMidnight(tod) == DAY_HOURS - tod

\* the constructor calls resetCountersDaily: setTimeout(..., msUntilMidnight)
InitTimer ==
    /\ now = 0
    /\ users = << >>
    /\ history = << >>
    /\ issued = {}
    /\ reg = EmptyBag
    /\ pending = NoPending
    /\ resp = [op |-> "none"]
    /\ analytics = [file |-> NoFile, dailyCounters |-> NoCounters]
    /\ jobs = EmptyBag
    /\ served = NoServed
    /\ limits = NoHits
    /\ \E tod \in 0..(DAY_HOURS - 1) :
            timer = [followed |-> TRUE, tod |-> tod, elapsed |-> 0, kind |-> "timeout",
                     due |-> msUntilMidnight(tod), resets |-> 0]
    /\ boot = [followed |-> FALSE]
    /\ window = [followed |-> FALSE]
    /\ client = [followed |-> FALSE]

\* an hour passes, no timer being due
Hour ==
    /\ timer.elapsed < MaxHours
    /\ timer.elapsed < timer.due
    /\ timer' = [timer EXCEPT !.elapsed = @ + 1]
    /\ UNCHANGED <<now, users, history, issued, reg, pending, resp, analytics, jobs, served,
                   limits, boot, window, client>>

\* the callback of setTimeout, which sets up setInterval(..., 24 h), or the
\* callback of that interval: the counters are replaced by fresh ones
TimerFires ==
    /\ timer.elapsed = timer.due
    /\ analytics' = [analytics EXCEPT !.dailyCounters = NoCounters]
    /\ timer' = [timer EXCEPT !.kind = "interval", !.due = @ + DAY_HOURS, !.resets = @ + 1]
    /\ UNCHANGED <<now, users, history, issued, reg, pending, resp, jobs, served,
                   limits, boot, window, client>>

\* a request is counted (the part of logSuccessfulRequest before its await)
Counting ==
    /\ analytics.dailyCounters.requests < MaxRequests
    /\ analytics' = [analytics EXCEPT !.dailyCounters = logSuccessfulRequest(@)]
    /\ UNCHANGED <<now, users, history, issued, reg, pending, resp, jobs, served,
                   limits, aside>>

NextTimer == Hour \/ TimerFires \/ Counting

SpecTimer == InitTimer /\ [][NextTimer]_vars

(***************************************************************************)
(* SpecBoot: the start of the process.  initializeApp awaits               *)
(* database.initialize(), whose promise settles once (the first resolve or *)
(* reject wins); the statements createTables hands to db.serialize run one *)
(* after the other, each calling back with its outcome.  Everything from   *)
(* the callback of the connection to app.listen runs without a callback of *)
(* sqlite in between (promise continuations come first).                   *)
(***************************************************************************)
Statements ==
    <<"users", "user_suggestions", "analytics", "idx_users_email",
      "idx_suggestions_user", "idx_analytics_goal", "idx_analytics_date">>

Tables == {"users", "user_suggestions", "analytics"}

\* resolve() or reject() on a promise: the first one settles it
Settle(promise, outcome) == IF promise = "pending" THEN outcome ELSE promise

InitBoot ==
    /\ now = 0
    /\ users = << >>
    /\ history = << >>
    /\ issued = {}
    /\ reg = EmptyBag
    /\ pending = NoPending
    /\ resp = [op |-> "none"]
    /\ analytics = [file |-> NoFile, dailyCounters |-> NoCounters]
    /\ jobs = EmptyBag
    /\ served = NoServed
    /\ limits = NoHits
    /\ timer = [followed |-> FALSE]
    /\ boot = [followed |-> TRUE, phase |-> "starting", promise |-> "pending",
               done |-> << >>, served |-> 0]
    /\ window = [followed |-> FALSE]
    /\ client = [followed |-> FALSE]

\* the callback of new sqlite3.Database: on an error reject, and initializeApp
\* logs and exits; else createTables queues its statements and resolves, and
\* initializeApp goes on to userService.initialize() and app.listen
Opened(err) ==
    /\ boot.phase = "starting"
    /\ boot' = IF err
               THEN [boot EXCEPT !.promise = Settle(@, "rejected"), !.phase = "exited"]
               ELSE [boot EXCEPT !.promise = Settle(@, "resolved"), !.phase = "listening"]
    /\ UNCHANGED <<now, users, history, issued, reg, pending, resp, analytics, jobs, served,
                   limits, timer, window, client>>

\* the callback of the next statement of db.serialize: a failed CREATE TABLE
\* logs and calls reject, a failed CREATE INDEX logs
StatementDone(err) ==
    LET statement == Statements[Len(boot.done) + 1] IN
    /\ boot.phase = "listening"
    /\ Len(boot.done) < Len(Statements)
    /\ boot' = [boot EXCEPT
                    !.done = Append(@, IF err THEN "failed" ELSE "ok"),
                    !.promise = IF err /\ statement \in Tables
                                THEN Settle(@, "rejected") ELSE @]
    /\ UNCHANGED <<now, users, history, issued, reg, pending, resp, analytics, jobs, served,
                   limits, timer, window, client>>

\* the listening server takes a request
Serve ==
    /\ boot.phase = "listening"
    /\ boot.served < MaxRequests
    /\ boot' = [boot EXCEPT !.served = @ + 1]
    /\ UNCHANGED <<now, users, history, issued, reg, pending, resp, analytics, jobs, served,
                   limits, timer, window, client>>

NextBoot ==
    \/ \E err \in BOOLEAN : Opened(err)
    \/ \E err \in BOOLEAN : StatementDone(err)
    \/ Serve

SpecBoot == InitBoot /\ [][NextBoot]_vars

(***************************************************************************)
(* SpecWindow: one middleware made by validateRateLimit(maxRequests,       *)
(* timeWindow).  window.clock counts half seconds; Date.now() and          *)
(* timeWindow are in milliseconds.  requestCounts is the Map of the        *)
(* closure; window.last records what the last call did.                    *)
(***************************************************************************)
MaxClock == 5
MaxRequestsArg == 2
MaxWindowArg == 2

Ms(halfSeconds) == 500 * halfSeconds

\* Math.ceil(a / b) for b > 0
Ceil(a, b) == IF a >= 0 THEN (a + b - 1) \div b ELSE -((-a) \div b)

\* req.ip of a request; "" stands for a request without one
Ips == {"10.0.0.1", "10.0.0.2", ""}

\* the identifier of the comparison spelled as the parameter is
LimitIdentifier_AsDeclared == "maxRequests"

\* the identifier compared with clientData.count
LimitIdentifier == "maxRequets"

\* the value of an identifier in the scope of the middleware; one that no
\* scope declares throws a ReferenceError
Identifier(name, scope) ==
    IF name \in DOMAIN scope
    THEN [threw |-> FALSE, value |-> scope[name]]
    ELSE [threw |-> TRUE, error |-> "ReferenceError"]

\* the entries the clean-up loop leaves in requestCounts
CleanedUp(requestCounts, nowMs, timeWindow) ==
    [ip \in {i \in DOMAIN requestCounts :
                ~(nowMs - requestCounts[i].firstRequest > timeWindow)}
        |-> requestCounts[ip]]

Put(map, key, value) ==
    [k \in DOMAIN map \cup {key} |-> IF k = key THEN value ELSE map[k]]

InitWindow ==
    /\ now = 0
    /\ users = << >>
    /\ history = << >>
    /\ issued = {}
    /\ reg = EmptyBag
    /\ pending = NoPending
    /\ resp = [op |-> "none"]
    /\ analytics = [file |-> NoFile, dailyCounters |-> NoCounters]
    /\ jobs = EmptyBag
    /\ served = NoServed
    /\ limits = NoHits
    /\ timer = [followed |-> FALSE]
    /\ boot = [followed |-> FALSE]
    /\ \E maxRequests \in 1..MaxRequestsArg, w \in 1..MaxWindowArg :
            window = [followed |-> TRUE, maxRequests |-> maxRequests,
                      timeWindow |-> Ms(w), clock |-> 0,
                      requestCounts |-> [ip \in {} |-> 0],
                      last |-> [outcome |-> "none"]]
    /\ client = [followed |-> FALSE]

\* one call of the middleware
RateLimited(ip) ==
    LET clientId == IF ip = "" THEN "unknown" ELSE ip
        nowMs == Ms(window.clock)
        maxRequests == window.maxRequests
        timeWindow == window.timeWindow
        cleaned == CleanedUp(window.requestCounts, nowMs, timeWindow)
        known == clientId \in DOMAIN cleaned
        before == IF known THEN cleaned[clientId] ELSE [count |-> 0, firstRequest |-> nowMs]
        call == [clientId |-> clientId, at |-> nowMs, known |-> known, before |-> before]
        limit == Identifier(LimitIdentifier,
                            [maxRequests |-> maxRequests, timeWindow |-> timeWindow])
    IN
    /\ window.followed
    /\ IF ~known \/ nowMs - before.firstRequest > timeWindow
       THEN window' = [window EXCEPT
                !.requestCounts = Put(cleaned, clientId, [count |-> 1, firstRequest |-> nowMs]),
                !.last = [outcome |-> "next", call |-> call]]
       ELSE IF limit.threw
       THEN window' = [window EXCEPT
                !.requestCounts = cleaned,
                !.last = [outcome |-> "threw", call |-> call, error |-> limit.error]]
       ELSE IF before.count >= limit.value
       THEN window' = [window EXCEPT
                !.requestCounts = cleaned,
                !.last = [outcome |-> "429", call |-> call,
                          body |-> [error |-> "Rate limit exceeded",
                                    retryAfter |-> Ceil(timeWindow - (nowMs - before.firstRequest),
                                                        1000)]]]
       ELSE window' = [window EXCEPT
                !.requestCounts = Put(cleaned, clientId,
                                      [before EXCEPT !.count = before.count + 1]),
                !.last = [outcome |-> "next", call |-> call]]
    /\ UNCHANGED <<now, users, history, issued, reg, pending, resp,
                   analytics, jobs, served, limits, timer, boot, client>>

HalfSecond ==
    /\ window.followed
    /\ window.clock < MaxClock
    /\ window' = [window EXCEPT !.clock = window.clock + 1]
    /\ UNCHANGED <<now, users, history, issued, reg, pending, resp,
                   analytics, jobs, served, limits, timer, boot, client>>

NextWindow ==
    \/ \E ip \in Ips : RateLimited(ip)
    \/ HalfSecond

SpecWindow == InitWindow /\ [][NextWindow]_vars

(***************************************************************************)
(* SpecClient: the AuthProvider of the browser client.  client holds the   *)
(* React state (user, token), local storage, and the asynchronous          *)
(* operations waiting for the answer of their fetch (ops).  The server is  *)
(* what answers: a login or register succeeds, is rejected, or the network *)
(* fails; GET /auth/verify says the stored token is valid or not.  A page  *)
(* load mounts the provider anew: the React state starts over, operations  *)
(* of the page before are gone, local storage stays.  client.last is what  *)
(* the last operation that ended did.                                      *)
(***************************************************************************)
MaxClientOps == 2

Accounts == {"a", "b"}

\* data.data of a successful login or register answer
AuthData(account) ==
    [user |-> [t |-> "object", id |-> account, email |-> account \o "@x.com"],
     token |-> Str("token-" \o account)]

\* JSON.stringify(userData), as lexical tokens
stringifyUser(u) ==
    [t |-> "string",
     json |-> << P("{"), S("id"), P(":"), S(u.id), P(","),
                 S("email"), P(":"), S(u.email), P("}") >>]

\* JSON.parse(storedUser)
parseUser(stored) ==
    LET o == parseObject(stored.json, 1) IN
    [t |-> "object", id |-> o.id, email |-> o.email]

EmptyStorage == [auth_token |-> Null, auth_user |-> Null]

\* user, token and the two local storage entries
Four(c) == <<c.user, c.token, c.storage.auth_token, c.storage.auth_user>>

Ended(op, failed) == [op |-> op, failed |-> failed, before |-> Four(client)]

InitClient ==
    /\ now = 0
    /\ users = << >>
    /\ history = << >>
    /\ issued = {}
    /\ reg = EmptyBag
    /\ pending = NoPending
    /\ resp = [op |-> "none"]
    /\ analytics = [file |-> NoFile, dailyCounters |-> NoCounters]
    /\ jobs = EmptyBag
    /\ served = NoServed
    /\ limits = NoHits
    /\ timer = [followed |-> FALSE]
    /\ boot = [followed |-> FALSE]
    /\ window = [followed |-> FALSE]
    /\ client = [followed |-> TRUE, mounted |-> FALSE, user |-> Null, token |-> Null,
                 storage |-> EmptyStorage, ops |-> {}, last |-> [op |-> "none"]]

ClientOnly ==
    UNCHANGED <<now, users, history, issued, reg, pending, resp,
                analytics, jobs, served, limits, timer, boot, window>>

\* the page loads: useState(null) twice, then initAuth up to its await
initAuth ==
    LET storedToken == client.storage.auth_token
        storedUser == client.storage.auth_user
    IN
    /\ client.followed
    /\ client' = [client EXCEPT
            !.mounted = TRUE, !.user = Null, !.token = Null,
            !.ops = IF storedToken # Null /\ storedUser # Null
                    THEN {[kind |-> "init", storedToken |-> storedToken,
                           storedUser |-> storedUser]}
                    ELSE {},
            !.last = [op |-> "none"]]
    /\ ClientOnly

\* verifyToken has answered: the rest of initAuth
initAuthSettled(o, isValid) ==
    /\ o \in client.ops
    /\ o.kind = "init"
    /\ client' = IF isValid
                 THEN [client EXCEPT !.token = o.storedToken,
                                     !.user = parseUser(o.storedUser),
                                     !.ops = @ \ {o}, !.last = Ended("init", FALSE)]
                 ELSE [client EXCEPT !.storage = EmptyStorage,
                                     !.ops = @ \ {o}, !.last = Ended("init", TRUE)]
    /\ ClientOnly

\* login(email, password) or register(userData) up to the await of its fetch
submit(kind, account) ==
    /\ client.followed
    /\ client.mounted
    /\ Cardinality(client.ops) < MaxClientOps
    /\ client' = [client EXCEPT !.ops = @ \cup {[kind |-> kind, account |-> account]},
                                !.last = [op |-> "none"]]
    /\ ClientOnly

\* the fetch of a login or register has answered (or thrown): the rest of it
submitSettled(o, answer) ==
    /\ o \in client.ops
    /\ o.kind \in {"login", "register"}
    /\ client' = IF answer = "ok"
                 THEN [client EXCEPT
                        !.user = AuthData(o.account).user,
                        !.token = AuthData(o.account).token,
                        !.storage = [auth_token |-> AuthData(o.account).token,
                                     auth_user |-> stringifyUser(AuthData(o.account).user)],
                        !.ops = @ \ {o}, !.last = Ended(o.kind, FALSE)]
                 ELSE [client EXCEPT !.ops = @ \ {o}, !.last = Ended(o.kind, TRUE)]
    /\ ClientOnly

logout ==
    /\ client.followed
    /\ client.mounted
    /\ client' = [client EXCEPT !.user = Null, !.token = Null, !.storage = EmptyStorage,
                                !.last = Ended("logout", FALSE)]
    /\ ClientOnly

ClientCalls ==
    \/ initAuth
    \/ \E kind \in {"login", "register"}, account \in Accounts : submit(kind, account)
    \/ logout

ClientAnswers ==
    \/ \E o \in client.ops, isValid \in BOOLEAN : initAuthSettled(o, isValid)
    \/ \E o \in client.ops, answer \in {"ok", "rejected", "network error"} :
            submitSettled(o, answer)

NextClient == ClientCalls \/ ClientAnswers

SpecClient == InitClient /\ [][NextClient]_vars

\* the same client, calling an operation only when none is in flight
NextClientSerial == (client.ops = {} /\ ClientCalls) \/ ClientAnswers

SpecClientSerial == InitClient /\ [][NextClientSerial]_vars

(***************************************************************************)
(* SpecFrame: requests that are to be turned away, next to requests that   *)
(* are served, from an empty store: registrations with a good, a weak and  *)
(* a short password, the protected endpoints under every kind of header,   *)
(* and anonymous POST /suggestions, one at a time, with the analytics      *)
(* service followed.  No store or analytics operation fails.               *)
(***************************************************************************)
ShortPassword == <<"A", "b", "1">>

FrameRegistrations ==
    {RegisterBody("a@x.com", p) : p \in {GoodPassword, WeakPassword, ShortPassword}}

\* an age of 25, one of 17 and a goal that is none of the six
FrameSuggestions ==
    {SuggestionBody(Num(250), Str("energy")), SuggestionBody(Num(170), Str("energy")),
     SuggestionBody(Num(250), Str("wealth"))}

NextFrame ==
    \/ \E body \in FrameRegistrations : RegisterStart(body, FALSE) /\ Untracked
    \/ \E r \in BagToSet(reg) : RegisterFinish(r, FALSE) /\ Untracked
    \/ \E header \in Headers : Verify(header) /\ Untracked
    \/ \E header \in Headers : GetProfile(header, FALSE) /\ Untracked
    \/ \E header \in Headers : GetHistory(header, Absent, FALSE) /\ Untracked
    \/ \E body \in FrameSuggestions :
            jobs = EmptyBag /\ PostBegin(NoHeader, body, FALSE, FALSE, FALSE) /\ UNCHANGED <<limits, aside>>
    \/ \E j \in BagToSet(jobs) : AnalyticsRead(j, FALSE) /\ UNCHANGED <<limits, aside>>
    \/ \E j \in BagToSet(jobs) : AnalyticsWrite(j, FALSE, FALSE) /\ UNCHANGED <<limits, aside>>
    \/ \E j \in BagToSet(jobs) : PostFinish(j, FALSE, FALSE, FALSE) /\ UNCHANGED <<limits, aside>>
    \/ Tick /\ Untracked

SpecFrame == Init /\ [][NextFrame]_vars

(***************************************************************************)
(* Properties.  resp is the last request and its response; users and       *)
(* history are the store.                                                  *)
(***************************************************************************)
\* the token of the last request was minted by the server and had not expired
\* when the request was made
Verified(r) == r.minted /\ r.at < r.header.token.claims.exp

\* the same token, at or past its expiry when the request was made
Expired(r) == r.minted /\ r.at >= r.header.token.claims.exp

\* a number, or a string that reads as one
NumericAge(raw) == raw.t = "number" \/ (raw.t = "string" /\ raw.numeric)

\* an integer of 18..120
InRangeInteger(raw) == \E a \in 18..120 : raw.tenths = 10 * a

KnownGoal(raw) == raw \in {Str(g) : g \in Goals}

\* a body the endpoint is to accept
AcceptableBody(body) ==
    /\ NumericAge(body.age) /\ InRangeInteger(body.age)
    /\ KnownGoal(body.healthGoal)
    /\ ~body.extra

RowsOf(userId) == {i \in 1..Len(history) : history[i].userId = userId}

UsersWithEmail(email) == {i \in 1..Len(users) : Str(users[i].email) = email}

\* C1: for every integer age of 18..120 sent as a number and every goal of the
\* six, with a valid token, a non-token or no header, POST /suggestions answers
\* 200 with exactly 3 suggestions, each with a non-empty name and description.
C1_ThreeSuggestions ==
    (/\ resp.op = "POST /suggestions"
     /\ resp.req.age.t = "number" /\ InRangeInteger(resp.req.age)
     /\ KnownGoal(resp.req.healthGoal)
     /\ ~resp.req.extra)
        => /\ resp.status = 200
           /\ Len(resp.body.suggestions) = 3
           /\ \A i \in 1..3 : /\ resp.body.suggestions[i].name # ""
                              /\ resp.body.suggestions[i].description # ""

C1_Witness ==
    /\ resp.op = "POST /suggestions"
    /\ Verified(resp)
    /\ resp.req.age = Num(1200)
    /\ resp.req.healthGoal = Str("immune_support")
    /\ resp.status = 200
    /\ Len(resp.body.suggestions) = 3

\* C2: a POST /auth/register for an email that a completed registration had
\* already stored is answered 409 EMAIL_EXISTS (the store answering), and the
\* store holds exactly one row of that email.
C2_DuplicateEmailConflict ==
    (/\ resp.op = "POST /auth/register"
     /\ resp.valid /\ resp.existed /\ ~resp.storeFault)
        => /\ resp.status = 409
           /\ resp.body.error.code = "EMAIL_EXISTS"
           /\ Cardinality(UsersWithEmail(resp.req.email)) = 1

C2_Witness ==
    /\ resp.op = "POST /auth/register"
    /\ resp.existed /\ ~resp.storeFault
    /\ resp.status = 409
    /\ Len(users) = 2

\* C3: every POST /auth/register with a valid body, the store answering, is
\* answered 201 or 409 EMAIL_EXISTS, however it overlaps with other
\* registrations of the email, and the store then holds one row of the email.
C3_OverlappingRegistrations ==
    (/\ resp.op = "POST /auth/register"
     /\ resp.valid /\ ~resp.storeFault)
        => /\ \/ resp.status = 201
              \/ resp.status = 409 /\ resp.body.error.code = "EMAIL_EXISTS"
           /\ Cardinality(UsersWithEmail(resp.req.email)) = 1

\* C4: GET /auth/verify with a minted token is answered 200, valid, with the
\* id, email, firstName and lastName of the user the token was minted for, at
\* every time before the token's expiry, and 401 TOKEN_EXPIRED from the expiry on.
C4_TokenValidUntilExpiry ==
    (resp.op = "GET /auth/verify" /\ resp.minted)
        => LET c == resp.header.token.claims
               u == users[c.id]
           IN  /\ Verified(resp)
                    => /\ resp.status = 200
                       /\ resp.body.data.valid
                       /\ resp.body.data.user =
                            [id |-> u.id, email |-> u.email,
                             firstName |-> u.firstName, lastName |-> u.lastName]
               /\ Expired(resp)
                    => /\ resp.status = 401
                       /\ resp.body.error.code = "TOKEN_EXPIRED"

C4_Witness ==
    /\ resp.op = "GET /auth/verify"
    /\ Verified(resp)
    /\ resp.at > resp.header.token.claims.iat
    /\ resp.header.token.claims.id = 1
    /\ Len(users) = 2
    /\ resp.status = 200

\* why a header fails verification at time t: the kind of the failure
FailureKind(header, t) ==
    IF header.scheme # "Bearer" THEN "missing"
    ELSE IF ~header.token.jwt THEN "malformed"
    ELSE IF header.token.sig.key # JWT_SECRET THEN "invalid signature"
    ELSE IF t >= header.token.claims.exp THEN "expired"
    ELSE "none"

\* C5: the error code of a 401 of GET /auth/verify differs from the code
\* answered to any header that fails in another of the four kinds (missing,
\* malformed, invalid signature, expired).
C5_DistinctErrorCodes ==
    (resp.op = "GET /auth/verify" /\ resp.status = 401)
        => \A h \in Headers :
              FailureKind(h, resp.at) \notin {"none", FailureKind(resp.header, resp.at)}
                 => verifyToken(h, resp.at).body.error.code # resp.body.error.code

\* what POST /suggestions answers to the body sent without a header
WithoutToken(body) ==
    LET v == suggestionsSchema(body) IN
    IF v.ok
    THEN [status |-> 200,
          suggestions |-> generateSuggestions(v.value.age, v.value.healthGoal, FALSE, << >>)]
    ELSE [status |-> 400]

\* C6: POST /suggestions is never answered 401; under a header whose token does
\* not verify (none, not a token, wrongly signed, expired) the status and the
\* suggestions are those of the request without a header; and
\* meta.authenticated is true exactly when the token verifies.
C6_TokenNeverRejects ==
    resp.op = "POST /suggestions"
        => /\ resp.status \in {200, 400}
           /\ resp.status = 200 <=> AcceptableBody(resp.req)
           /\ resp.status = 200 => (resp.body.meta.authenticated <=> Verified(resp))
           /\ ~Verified(resp)
                => /\ resp.status = WithoutToken(resp.req).status
                   /\ resp.status = 200
                        => resp.body.suggestions = WithoutToken(resp.req).suggestions

C6_Witness ==
    /\ resp.op = "POST /suggestions"
    /\ Expired(resp)
    /\ resp.status = 200
    /\ ~resp.body.meta.authenticated
    /\ Len(resp.body.suggestions) = 3

\* C7: the history changes only by a POST /suggestions with an acceptable body
\* and a token that verifies, which adds one row under the id of the token; a
\* POST /suggestions with an acceptable body and no verifying token is
\* answered 200 with meta.authenticated false and leaves the history as it was.
C7_HistoryOnlyByAuthenticated ==
    [][ /\ history' # history
            => /\ resp'.op = "POST /suggestions"
               /\ resp'.status = 200
               /\ AcceptableBody(resp'.req)
               /\ Verified(resp')
               /\ Len(history') = Len(history) + 1
               /\ SubSeq(history', 1, Len(history)) = history
               /\ history'[Len(history')].userId = resp'.header.token.claims.id
        /\ (/\ resp' # resp
            /\ resp'.op = "POST /suggestions"
            /\ AcceptableBody(resp'.req)
            /\ ~Verified(resp'))
            => /\ resp'.status = 200
               /\ ~resp'.body.meta.authenticated
               /\ history' = history
      ]_vars

C7_Witness ==
    /\ resp.op = "POST /suggestions"
    /\ Verified(resp)
    /\ resp.header.token.claims.id = 2
    /\ Len(history) = 2
    /\ history[1].userId = 1
    /\ history[2].userId = 2

\* what GET /auth/suggestions is to return of a POST: what was sent and answered
EntryOf(post) ==
    [age |-> post.req.age.tenths \div 10, healthGoal |-> post.req.healthGoal.text,
     suggestions |-> post.body.suggestions]

Returns(rows, post, id) ==
    \E k \in DOMAIN rows :
        /\ rows[k].id = id
        /\ rows[k].age = EntryOf(post).age
        /\ rows[k].healthGoal = EntryOf(post).healthGoal
        /\ rows[k].suggestions = EntryOf(post).suggestions

\* C8: a POST /suggestions answered 200 under a token that verifies, the store
\* saving, adds exactly one row, for the user of the token; a GET
\* /auth/suggestions that follows it with the same token, the store answering,
\* is answered 200 with that entry: the age and goal submitted and the
\* suggestions the POST returned; and a user with one row is returned one entry.
C8_SavedEntryReturned ==
    [][ /\ (/\ <<resp, history>>' # <<resp, history>>
            /\ resp'.op = "POST /suggestions"
            /\ resp'.status = 200
            /\ Verified(resp')
            /\ ~resp'.saveFails)
            => /\ Len(history') = Len(history) + 1
               /\ SubSeq(history', 1, Len(history)) = history
               /\ history'[Len(history')].userId = resp'.header.token.claims.id
        /\ (/\ resp.op = "POST /suggestions"
            /\ resp.status = 200
            /\ Verified(resp)
            /\ ~resp.saveFails
            /\ resp'.op = "GET /auth/suggestions"
            /\ resp'.header = resp.header
            /\ Verified(resp')
            /\ ~resp'.storeFault)
            => /\ resp'.status = 200
               /\ Returns(resp'.body.data.suggestions, resp, Len(history))
        /\ (/\ resp' # resp
            /\ resp'.op = "GET /auth/suggestions"
            /\ Verified(resp')
            /\ ~resp'.storeFault
            /\ Cardinality(RowsOf(resp'.header.token.claims.id)) = 1)
            => /\ resp'.status = 200
               /\ Len(resp'.body.data.suggestions) = 1
               /\ resp'.body.data.total = 1
      ]_vars

\* C9: GET /auth/suggestions under a token that verifies, for a user without a
\* history row, the store answering, is answered 200 with an empty list and
\* total 0.
C9_EmptyHistory ==
    (/\ resp.op = "GET /auth/suggestions"
     /\ Verified(resp)
     /\ ~resp.storeFault
     /\ RowsOf(resp.header.token.claims.id) = {})
        => /\ resp.status = 200
           /\ resp.body.data.suggestions = << >>
           /\ resp.body.data.total = 0

C9_Witness ==
    /\ resp.op = "GET /auth/suggestions"
    /\ Verified(resp)
    /\ ~resp.storeFault
    /\ RowsOf(resp.header.token.claims.id) = {}
    /\ history # << >>
    /\ resp.status = 200

\* C10: POST /suggestions answers 400 with an error of field age to every
\* numeric age below 18, above 120 or not whole, and does not reject an
\* integer age of 18..120, sent as a number or as a string that reads as one:
\* with a goal of the six it answers 200.
C10_AgeValidation ==
    (resp.op = "POST /suggestions" /\ NumericAge(resp.req.age))
        => /\ ~InRangeInteger(resp.req.age)
                => /\ resp.status = 400
                   /\ resp.body.error.field = "age"
                   /\ resp.body.error.code = "VALIDATION_ERROR"
           /\ InRangeInteger(resp.req.age)
                => /\ resp.status = 400 => resp.body.error.field # "age"
                   /\ (KnownGoal(resp.req.healthGoal) /\ ~resp.req.extra) => resp.status = 200

C10_Witness ==
    /\ resp.op = "POST /suggestions"
    /\ resp.req.age = Num(645)
    /\ resp.status = 400
    /\ resp.body.error.field = "age"
    /\ resp.body.error.message = "Age must be a whole number"

\* C11: a 400 of POST /suggestions, POST /auth/register or POST /auth/login
\* carries error.message and a field path error.field.
C11_ValidationFieldPath ==
    (/\ resp.op \in {"POST /suggestions", "POST /auth/register", "POST /auth/login"}
     /\ resp.status = 400)
        => /\ "message" \in DOMAIN resp.body.error
           /\ "field" \in DOMAIN resp.body.error

\* the body POST /auth/login answers to credentials it does not accept
InvalidCredentials ==
    [success |-> FALSE,
     error |-> [message |-> "Invalid email or password", code |-> "INVALID_CREDENTIALS"]]

\* the last request was a login with a well-formed body, the store answering
LoginAttempt ==
    /\ resp.op = "POST /auth/login"
    /\ resp.req.email.t = "string" /\ resp.req.password.t = "string"
    /\ resp.status # 400
    /\ ~resp.storeFault

UnknownEmail == UsersWithEmail(resp.req.email) = {}

WrongPassword ==
    \E i \in UsersWithEmail(resp.req.email) : users[i].password.of # resp.req.password.text

\* C13: POST /auth/login answers an unregistered email and a registered email
\* with a wrong password alike: 401 with one and the same body.
C13_LoginFailuresAlike ==
    (LoginAttempt /\ (UnknownEmail \/ WrongPassword))
        => /\ resp.status = 401
           /\ resp.body = InvalidCredentials

C13_Witness ==
    /\ LoginAttempt
    /\ WrongPassword
    /\ resp.status = 401
    /\ resp.body = InvalidCredentials

C13_WitnessUnknown ==
    /\ LoginAttempt
    /\ UnknownEmail
    /\ users # << >>
    /\ resp.status = 401

\* the fields of a user a response may carry, and of the claims of a token
UserFields == {"id", "email", "firstName", "lastName", "createdAt", "updatedAt"}
ClaimFields == {"id", "email", "firstName", "lastName", "iat", "exp", "iss"}
EntryFields == {"id", "age", "healthGoal", "suggestions", "createdAt"}

C15_AuxiliaryFailuresHidden ==
    (/\ resp.op = "POST /suggestions"
     /\ "aux" \in DOMAIN resp
     /\ AcceptableBody(resp.req)
     /\ ~resp.fault)
        => /\ resp.status = 200
           /\ Len(resp.body.suggestions) = 3
           /\ resp.body.suggestions =
                generateSuggestions(resp.req.age.tenths \div 10, resp.req.healthGoal.text,
                                    resp.body.meta.authenticated, << >>)

\* an anonymous request, so one without history operations, is answered 200
\* although one of its analytics operations failed
C15_Witness ==
    /\ resp.op = "POST /suggestions"
    /\ "aux" \in DOMAIN resp
    /\ resp.header = NoHeader
    /\ resp.aux
    /\ resp.status = 200
    /\ Len(resp.body.suggestions) = 3

\* the request of a user is answered 200 although its history save failed
C15_WitnessSave ==
    /\ resp.op = "POST /suggestions"
    /\ "aux" \in DOMAIN resp
    /\ Verified(resp)
    /\ resp.saveFails
    /\ resp.status = 200

\* the requests answered 200 so far
Successes == served.begun - served.failed - BagCardinality(jobs)

\* C16: once every POST /suggestions of the day has completed, none of them
\* having failed in any operation, the record of the day in analytics.json
\* counts each of them: totalRequests and successfulRequests are the number
\* of requests answered 200, goalSelections[g] the number of those of goal g.
C16_NoLostIncrement ==
    (/\ jobs = EmptyBag
     /\ served.begun > 0
     /\ served.failed = 0
     /\ served.clean)
        => /\ DateOf(now) \in DOMAIN analytics.file
           /\ analytics.file[DateOf(now)].totalRequests = Successes
           /\ analytics.file[DateOf(now)].successfulRequests = Successes
           /\ analytics.file[DateOf(now)].goalSelections = served.ok

\* C17: the in-memory request totals count every request that passed
\* validation exactly once: with no handler in flight, requests is the number
\* of 200 and 500 responses, successfulRequests the number of 200 responses
\* and errors the number of 500 responses.
C17_CountedOnce ==
    jobs = EmptyBag
        => /\ analytics.dailyCounters.requests = served.begun
           /\ analytics.dailyCounters.successfulRequests = Successes
           /\ analytics.dailyCounters.errors = served.failed

\* a handler waits for the write of analytics.json
AwaitingWrite == \E j \in BagToSet(jobs) : j.pc = "write"

\* every request that passed validation has been answered
AllAnswered == jobs = EmptyBag

\* C18: a valid POST /suggestions whose analytics write is outstanding is
\* answered in the end, whether or not that write ever completes.
C18_ResponseNotWaiting == AwaitingWrite ~> AllAnswered

\* a register body whose password is shorter than 8 characters or lacks an
\* upper-case letter, a lower-case letter or a digit
UnfitPassword(body) ==
    LET chars == body.password.text IN
    \/ Len(chars) < 8
    \/ \A i \in 1..Len(chars) : chars[i] \notin UpperCase
    \/ \A i \in 1..Len(chars) : chars[i] \notin LowerCase
    \/ \A i \in 1..Len(chars) : chars[i] \notin Digits

\* the response r is to a request that is to be turned away
TurnedAway(r) ==
    \/ r.op = "POST /suggestions" /\ ~AcceptableBody(r.req)
    \/ r.op = "POST /auth/register" /\ UnfitPassword(r.req)
    \/ /\ r.op \in {"GET /auth/verify", "GET /auth/profile", "GET /auth/suggestions"}
       /\ ~Verified(r)

\* C12: the step that answers an invalid POST /suggestions, a POST
\* /auth/register with an unfit password, or a protected endpoint called
\* without a valid token answers 400 (401 for the token) with no token in the
\* body, and changes nothing else: no user row, no token issued, no history
\* row, no analytics counter or file content, no handler started.
C12_RejectedRequestsNoEffect ==
    [][(resp' # resp /\ TurnedAway(resp'))
        => /\ resp'.status = IF resp'.op \in {"POST /suggestions", "POST /auth/register"}
                             THEN 400 ELSE 401
           /\ ~resp'.body.success
           /\ "data" \notin DOMAIN resp'.body
           /\ UNCHANGED <<users, history, issued, reg, analytics, jobs, served>>]_vars

\* each kind of request has been turned away while the store held a user, a
\* token was out and the analytics file had a record
C12_Witness ==
    /\ TurnedAway(resp)
    /\ resp.op = "POST /auth/register"
    /\ Len(resp.req.password.text) >= 8
    /\ resp.status = 400
    /\ Len(users) = 1
    /\ issued # {}
    /\ analytics.dailyCounters.requests > 0

C12_WitnessSuggestions ==
    /\ TurnedAway(resp)
    /\ resp.op = "POST /suggestions"
    /\ resp.status = 400
    /\ analytics.dailyCounters.requests > 0
    /\ DOMAIN analytics.file # {}

C12_WitnessExpired ==
    /\ TurnedAway(resp)
    /\ resp.op = "GET /auth/profile"
    /\ Expired(resp)
    /\ resp.status = 401

\* the body {success: false, error: {message, code, ...}}
ErrorEnvelope(body) ==
    /\ "success" \in DOMAIN body
    /\ body.success = FALSE
    /\ "error" \in DOMAIN body
    /\ {"message", "code"} \subseteq DOMAIN body.error

\* C19: every response with an error status has the body shape
\* {success: false, error: {message, code, ...}}.
C19_UniformErrorEnvelope ==
    (resp.op # "none" /\ resp.status >= 400) => ErrorEnvelope(resp.body)

\* the request of this step exceeds the window of a limiter
OverLimit ==
    \/ limits'.general.hits > limits.general.hits /\ limits'.general.hits > 100
    \/ limits'.auth.hits > limits.auth.hits /\ limits'.auth.hits > 5

\* C20: in a window the client is let through to register and login at most
\* 5 times in total and to the API at most 100 times; a request beyond that
\* is answered 429 with a Retry-After header, and its step changes nothing
\* but the limiter's count: no store row, no token, no analytics, no handler.
C20_RateLimits ==
    /\ [](limits.general.admitted <= 100 /\ limits.auth.admitted <= 5)
    /\ [][OverLimit
            => /\ resp'.status = 429
               /\ "Retry-After" \in resp'.headers
               /\ UNCHANGED <<users, history, issued, reg, analytics, jobs, served>>]_vars

\* the sixth login or registration of the window is turned away
C20_Witness ==
    /\ resp.op \in {"POST /auth/login", "POST /auth/register"}
    /\ resp.status = 429
    /\ resp.limiter = "auth"
    /\ limits.auth.admitted = 5
    /\ limits.auth.hits = 6

\* the 101st request of the window is turned away
C20_WitnessGeneral ==
    /\ resp.op = "POST /suggestions"
    /\ resp.status = 429
    /\ resp.limiter = "general"
    /\ limits.general.admitted = 100
    /\ limits.general.hits = 101

\* the file was written in this step, with a record of the current date in it
WrittenToday ==
    /\ analytics'.file # analytics.file
    /\ DateOf(now) \in DOMAIN analytics'.file

C21_WitnessBoundary ==
    /\ now = 0
    /\ DOMAIN analytics.file = {0 - 90, 0 - 87, 0 - 84, 0}

Midnights == (timer.tod + timer.elapsed) \div 24

AtMidnight == (timer.tod + timer.elapsed) % 24 = 0 /\ timer.elapsed > 0

\* C22: the counters have been reset once for every local midnight since the
\* start (the reset of a midnight just reached may be about to run); a reset
\* runs at a midnight, zeroes every counter, and the counters never go down
\* in any other step.
C22_ResetAtMidnights ==
    /\ [](/\ ~AtMidnight => timer.resets = Midnights
          /\ AtMidnight => timer.resets \in {Midnights - 1, Midnights})
    /\ [][/\ timer'.resets # timer.resets
              => /\ AtMidnight
                 /\ analytics'.dailyCounters =
                        [requests |-> 0, goalSelections |-> NoCount, errors |-> 0,
                         successfulRequests |-> 0]
          /\ analytics'.dailyCounters.requests < analytics.dailyCounters.requests
              => timer'.resets = timer.resets + 1]_vars

\* a process started at 17:00 has counted requests and reset twice, the
\* second time 24 hours after the first
C22_Witness ==
    /\ timer.followed
    /\ timer.tod = 17
    /\ timer.resets = 2
    /\ timer.elapsed = 31
    /\ analytics.dailyCounters.requests = 0

\* the three CREATE TABLE statements have run and succeeded
TablesCreated ==
    \A i \in 1..3 : Len(boot.done) >= i /\ boot.done[i] = "ok"

TableFailed == \E i \in 1..3 : Len(boot.done) >= i /\ boot.done[i] = "failed"

\* C27: database.initialize() has resolved only if the three tables have
\* been created, and has rejected if the creation of one of them failed.
C27_InitializeAfterTables ==
    /\ boot.promise = "resolved" => TablesCreated
    /\ TableFailed => boot.promise = "rejected"

\* C23: the server listens, and serves, only when the initialization has
\* succeeded, the tables being there; after a failure it is not listening.
C23_ListenAfterInitialization ==
    /\ boot.phase = "listening" => TablesCreated
    /\ boot.served > 0 => TablesCreated
    /\ (boot.promise = "rejected" \/ TableFailed) => boot.phase # "listening"

RequestedLimit(limit) ==
    IF limit.t = "string" /\ limit.numeric /\ limit.tenths > 0 /\ limit.tenths % 10 = 0
    THEN limit.tenths \div 10
    ELSE 10

\* the number of entries a history request is to return
PageLength(r) ==
    LET n == Cardinality(RowsOf(r.header.token.claims.id)) IN
    IF n < RequestedLimit(r.limit) THEN n ELSE RequestedLimit(r.limit)

\* C25: GET /auth/suggestions?limit=N under a token that verifies, the store
\* answering, is answered 200 with rows of the caller only, at most N of them
\* (at most 10 when N is absent or not a positive integer), the row saved later
\* before the row saved earlier, and data.total is the number of rows returned.
C25_HistoryPage ==
    (/\ resp.op = "GET /auth/suggestions"
     /\ Verified(resp)
     /\ ~resp.storeFault)
        => /\ resp.status = 200
           /\ Len(resp.body.data.suggestions) = PageLength(resp)
           /\ resp.body.data.total = Len(resp.body.data.suggestions)
           /\ \A k \in DOMAIN resp.body.data.suggestions :
                resp.body.data.suggestions[k].id \in RowsOf(resp.header.token.claims.id)
           /\ \A i, j \in DOMAIN resp.body.data.suggestions :
                i < j => resp.body.data.suggestions[i].id > resp.body.data.suggestions[j].id

\* the calls of a client that found its window open
InWindow == window.last.call.known

\* C28: a call of the middleware never throws; a client without a window, or
\* whose window has elapsed, is let through and starts a window at that call;
\* within its window a client is let through while fewer than maxRequests of
\* its requests were, and is otherwise answered 429 with a positive retryAfter;
\* so no window lets more than maxRequests through.
C28_WindowLimit ==
    (window.followed /\ window.last.outcome # "none")
        => /\ window.last.outcome # "threw"
           /\ \A ip \in DOMAIN window.requestCounts :
                window.requestCounts[ip].count <= window.maxRequests
           /\ ~InWindow
                => /\ window.last.outcome = "next"
                   /\ window.requestCounts[window.last.call.clientId]
                        = [count |-> 1, firstRequest |-> window.last.call.at]
           /\ (InWindow /\ window.last.call.before.count < window.maxRequests)
                => /\ window.last.outcome = "next"
                   /\ window.requestCounts[window.last.call.clientId]
                        = [count |-> window.last.call.before.count + 1,
                           firstRequest |-> window.last.call.before.firstRequest]
           /\ (InWindow /\ window.last.call.before.count >= window.maxRequests)
                => /\ window.last.outcome = "429"
                   /\ window.last.body.retryAfter > 0

\* the ids of the stored users
UserIds == {users[i].id : i \in 1..Len(users)}

\* what a history request of a user can return, with and without a limit
HistoryOf(tbl, userId) ==
    <<getUserSuggestions(tbl, userId, DEFAULT_LIMIT), getUserSuggestions(tbl, userId, 1)>>

\* C26: a GET /auth/suggestions answered 200 returns only rows whose userId is
\* the id of the token, and so does the history POST /suggestions consults for
\* any user; and what a history request of a user returns changes only in a
\* POST /suggestions step made with a token of that user.
C26_HistoryIsolated ==
    /\ [](/\ (resp.op = "GET /auth/suggestions" /\ resp.status = 200)
                => \A k \in DOMAIN resp.body.data.suggestions :
                    /\ resp.body.data.suggestions[k].id \in 1..Len(history)
                    /\ history[resp.body.data.suggestions[k].id].userId
                            = resp.header.token.claims.id
          /\ \A u \in UserIds :
                \A rows \in getUserSuggestions(history, u, HISTORY_PEEK) :
                    \A k \in DOMAIN rows :
                        /\ rows[k].id \in 1..Len(history)
                        /\ history[rows[k].id].userId = u)
    /\ [][history' # history
            => \A b \in UserIds :
                HistoryOf(history', b) # HistoryOf(history, b)
                    => /\ resp'.op = "POST /suggestions"
                       /\ Verified(resp')
                       /\ resp'.header.token.claims.id = b]_vars

\* user 2 asks for its history after user 1 and user 2 each saved an entry, and
\* is returned its own entry alone
C26_Witness ==
    /\ resp.op = "GET /auth/suggestions"
    /\ resp.status = 200
    /\ resp.header.token.claims.id = 2
    /\ Len(history) = 2
    /\ history[1].userId = 1
    /\ history[2].userId = 2
    /\ Len(resp.body.data.suggestions) = 1
    /\ resp.body.data.suggestions[1].id = 2

\* C29: with the log operations one after the other, every record of
\* analytics.json has totalRequests = successfulRequests + failedRequests and
\* as many entries in errors as failedRequests, and the in-memory counters
\* have requests = successfulRequests + errors.
C29_CountsAddUp ==
    /\ \A d \in DOMAIN analytics.file :
        /\ analytics.file[d].totalRequests
                = analytics.file[d].successfulRequests + analytics.file[d].failedRequests
        /\ Len(analytics.file[d].errors) = analytics.file[d].failedRequests
    /\ analytics.dailyCounters.requests
            = analytics.dailyCounters.successfulRequests + analytics.dailyCounters.errors

\* a day with a successful and a failed request on record, the counters
\* having counted a failed request since their last reset
C29_Witness ==
    /\ \E d \in DOMAIN analytics.file :
        /\ analytics.file[d].successfulRequests = 1
        /\ analytics.file[d].failedRequests = 1
        /\ Len(analytics.file[d].errors) = 1
    /\ analytics.dailyCounters.errors = 1
    /\ jobs = EmptyBag

\* user and token are both set or both null, and each local storage entry is
\* present exactly when its value is set
ClientConsistent ==
    /\ client.user = Null <=> client.token = Null
    /\ client.storage.auth_token # Null <=> client.token # Null
    /\ client.storage.auth_user # Null <=> client.user # Null

\* C30: with the provider mounted and no operation in flight, user and token
\* are both set or both null and the auth_token / auth_user entries are
\* present exactly when they are set; right after logout all four are cleared;
\* right after a failed login or register all four are what they were.
C30_ClientAuthState ==
    client.followed
        => /\ (client.mounted /\ client.ops = {}) => ClientConsistent
           /\ client.last.op = "logout"
                => Four(client) = <<Null, Null, Null, Null>>
           /\ (client.last.op \in {"login", "register"} /\ client.last.failed)
                => Four(client) = client.last.before
====
